---- MODULE Spec2Model ----
(***************************************************************************)
(* Token lifecycle and Unit-of-Work coordination of the users backend.     *)
(*                                                                         *)
(* The model follows the control flow and the data flow of                 *)
(*   src/backend/src/users/domain/services/token_service.py                *)
(*   src/backend/src/users/domain/services/auth_service.py                 *)
(*   src/backend/src/users/infrastructure/database/unit_of_work.py         *)
(* statement by statement: conditions, early returns, try/except scopes,   *)
(* the order of repository calls, and every begin / commit / rollback.     *)
(*                                                                         *)
(* Reading conventions.                                                    *)
(*  - Entities and result objects are read as plain records: an attribute  *)
(*    assignment (token.status = ...) updates the caller's local copy and  *)
(*    a constructor call builds the record with the named fields.          *)
(*  - One UnitOfWork, hence one database session, is shared by all the     *)
(*    services and all the callers (dependencies/domain.py get_uow is      *)
(*    cached); a caller suspends at every repository round trip.           *)
(*  - Session.begin() on a session whose transaction is already begun      *)
(*    raises (SQLAlchemy InvalidRequestError); leaving the begin() block    *)
(*    with the transaction still active commits it.                        *)
(*  - A signed access token is a record of kind "jwt"; decoding anything   *)
(*    else fails.  Refresh tokens are opaque strings.                      *)
(*  - The clock now moves only by Tick, to the instant a persisted token  *)
(*    expires.  Spec has no Tick: everything in it happens before any      *)
(*    token expires.  SpecRevokeAll has it.                                *)
(*  - last and log are history variables: the call completed by the        *)
(*    latest step, and the completed calls of the operations in Logged.    *)
(*  - Spec is the token and login services under the deployed settings;    *)
(*    SpecAuth, SpecRevokeAll, SpecScopes, SpecLifetime and SpecEntity     *)
(*    run one group of operations each over the inputs their name says.    *)
(*  - SpecUow is the UnitOfWork under direct calls of its methods, in any  *)
(*    order; SpecAuthRevoke is AuthService.revoke_token and                *)
(*    revoke_all_tokens over the token service.                            *)
(*  - SpecRegister is UserRegistrationService.register_user                *)
(*    (domain/services/user_registration_service.py): one cached service   *)
(*    whose self._uow is shared by its callers; each step runs the code    *)
(*    from one await to the next and issues the next repository call.      *)
(*  - SpecVerify is verify_token over stored, unstored, revoked and        *)
(*    scoped tokens.  SpecContext is "async with uow": __aenter__, use,    *)
(*    __aexit__.  SpecRequest is the life of a request through             *)
(*    dependencies/services.py get_user_auth_management.  SpecManagement   *)
(*    is application/user_auth_management.py login, refresh_tokens, logout *)
(*    and change_password over the services, with                          *)
(*    domain/services/user_service.py get_my_profile / update_my_profile.  *)
(***************************************************************************)
EXTENDS Integers, Sequences, FiniteSets, TLC

(* ----------------------------- bounds --------------------------------- *)
MaxTokens == 2
MaxCalls == 3
MaxFaults == 1
MaxSessions == 2

Procs == {"p1", "p2"}
Users == {"u1"}

None == "none"

ACCESS == "access"
REFRESH == "refresh"
ACTIVE == "active"
REVOKED == "revoked"
EXPIRED == "expired"
USED == "used"

VARIABLES
  db,      \* committed tokens table: sequence of rows, the row id is its index
  work,    \* the tokens table as the shared session sees it (db + unflushed/uncommitted rows)
  users,   \* committed users table: user -> [exists, enabled, verified,
           \* hashed_password, bio]; the last two name the call that wrote them
  uow,     \* the shared UnitOfWork: [state, tx]
  pc,      \* per caller: label of the next statement
  ret,     \* per caller: stack of return labels of the calls in progress
  loc,     \* per caller: local variables of the calls in progress
  last,    \* the top-level call completed by the latest step, if any
  ncalls,  \* number of top-level calls started
  faults,  \* number of injected persistence failures
  log,     \* completed top-level calls of the operations in Logged
  now,     \* the clock, datetime.now(timezone.utc), in seconds
  settings, \* TokenService's configured lifetimes: [access, refresh] in seconds
  entity,  \* a Token object held by a caller of the entity's methods
  result,  \* the outcome of the latest method call on entity
  registration \* UserRegistrationService and the users table it writes

vars == <<db, work, users, uow, pc, ret, loc, last, ncalls, faults, log,
          now, settings, entity, result, registration>>

\* What no step of the services changes: they read the clock and the
\* configuration, and the Token object under direct calls is not theirs.
Fixed == UNCHANGED <<now, settings, entity, result, registration>>

(* ------------------------- token values -------------------------------- *)
\* _create_jwt_payload + _encode_jwt: the signed string carries the payload;
\* n stands for the jti (uuid4), unique per issuing call.
create_jwt_payload(u, n, scopes) ==
  [kind |-> "jwt", n |-> n, sub |-> u, type |-> ACCESS,
   scopes |-> IF scopes = {} THEN {"*"} ELSE scopes]

\* secrets.token_urlsafe(32): an opaque string without structure.
token_urlsafe(n) == [kind |-> "opaque", n |-> n]

\* Token.generate_opaque_token_string: a fresh UUID-class string.
generate_opaque_token_string(n) == [kind |-> "uuid", n |-> n]

\* str(token.id): the row id used as an identifier string.
IdString(i) == [kind |-> "id", n |-> <<"id", i>>]

\* A string no token was ever issued with.
Forged == [kind |-> "opaque", n |-> <<"x", 0>>]

BadPayload == [kind |-> "bad"]

\* Variant of _decode_jwt: a string that is no signed token is resolved
\* against the tokens table instead of being refused.
decode_jwt_or_stored(v) ==
  IF v.kind = "jwt" THEN v
  ELSE LET hits == {i \in 1..Len(db) : db[i].value = v}
       IN IF hits = {} THEN BadPayload
          ELSE LET t == db[CHOOSE i \in hits : TRUE]
               IN [kind |-> "jwt", n |-> v.n, sub |-> t.user, type |-> t.type,
                   scopes |-> t.scopes]

\* _decode_jwt: the payload of a signed token; jwt.decode raises on anything else.
decode_jwt(v) == IF v.kind = "jwt" THEN v ELSE BadPayload

\* Variant of has_all_scopes that is satisfied by any one required scope.
has_any_scope(scopes, required) ==
  IF "*" \in scopes THEN TRUE ELSE required \cap scopes # {}

\* TokenScope.has_all_scopes
has_all_scopes(scopes, required) ==
  IF "*" \in scopes THEN TRUE ELSE required \subseteq scopes

\* Token.with_updates: ValueError when an immutable field is named.
ImmutableFields == {"token", "user_id", "token_type", "expiry", "created_at"}

\* Variant of the guard of with_updates that protects the token value only.
with_updates_rejects_token_only(fields) == "token" \in fields

with_updates_rejects(fields) == fields \cap ImmutableFields # {}

(* ------------------------- repositories -------------------------------- *)
NoToken == [id |-> 0]

\* Token.create + ITokenRepository.create_token: a new active row, id assigned on insert.
NewToken(id, v, u, typ, scopes, expiry) ==
  [id |-> id, value |-> v, user |-> u, type |-> typ, status |-> ACTIVE,
   scopes |-> scopes, last_used |-> <<>>, revoked_at |-> <<>>,
   reason |-> None, parent |-> 0, next |-> 0,
   created_at |-> expiry.created_at, expires_at |-> expiry.expires_at]

\* TokenExpiry.from_now(seconds): created now, expiring seconds later.
TokenExpiry_from_now(seconds) == [created_at |-> now, expires_at |-> now + seconds]

\* TokenExpiry.__post_init__ raises ValueError("Expiry time must be in the
\* future") when expires_at <= created_at.
TokenExpiry_post_init_raises(expiry) == expiry.expires_at <= expiry.created_at

\* TokenRepositoryImpl.get_by_token: select where TokenORM.token == token.
get_by_token(tbl, ident) ==
  LET hits == {i \in 1..Len(tbl) : tbl[i].value = ident}
  IN IF hits = {} THEN NoToken ELSE tbl[CHOOSE i \in hits : TRUE]

\* The revocation columns of a row as read back (status, revoked_at,
\* revocation_reason); no row reads as None.
Persisted(t) ==
  IF t.id = 0 THEN [status |-> None, revoked_at |-> <<>>, reason |-> None]
  ELSE [status |-> t.status, revoked_at |-> t.revoked_at, reason |-> t.reason]

\* ITokenRepository.update_token: the row of the entity takes every mutable field of the entity.
update_token(tbl, ent) ==
  [tbl EXCEPT ![ent.id] =
     [@ EXCEPT !.user = ent.user, !.type = ent.type,
               !.status = ent.status, !.last_used = ent.last_used,
               !.revoked_at = ent.revoked_at, !.reason = ent.reason,
               !.scopes = ent.scopes, !.parent = ent.parent, !.next = ent.next]]

\* Variant of get_user_by_id without the deleted_at filter.
get_user_by_id_any(u) == IF u \in Users THEN u ELSE None

\* UserRepositoryImpl.get_user_by_id / get_user_by_email: rows with deleted_at set are not returned.
get_user_by_id(u) == IF u \in Users /\ users[u].exists THEN u ELSE None

(* ------------------------- Token entity ------------------------------- *)
\* TokenExpiry.is_expired(): the method, datetime.now(timezone.utc) >= expires_at.
TokenExpiry_is_expired(t) == now >= t.expires_at

\* Token.is_expired, lines 173-180: the property returns self.expiry.is_expired,
\* the bound method, without calling it.  This is its value as a condition:
\* a method object is true whatever the clock says.
Token_is_expired(t) == TRUE

\* Token.is_revoked, lines 182-189.
Token_is_revoked(t) == t.status = REVOKED \/ t.revoked_at # <<>>

\* Token.is_valid, lines 191-202.
Token_is_valid(t) ==
  t.status = ACTIVE /\ ~Token_is_expired(t) /\ ~Token_is_revoked(t)

\* Token.MIN_TOKEN_LIFETIME, Token.MAX_TOKEN_LIFETIME (seconds).
MIN_TOKEN_LIFETIME == 60
MAX_TOKEN_LIFETIME == 2592000

\* Token._validate_token_lifetime, lines 243-257: ValueError unless
\* MIN_TOKEN_LIFETIME <= expires_in <= MAX_TOKEN_LIFETIME.  It is called by
\* the factories Token.create_access_token and Token.create_refresh_token
\* only; TokenService.create_token builds its entity with Token.create.
Token_validate_token_lifetime_raises(expires_in) ==
  ~(MIN_TOKEN_LIFETIME <= expires_in /\ expires_in <= MAX_TOKEN_LIFETIME)

\* Fields of the Token dataclass (the immutable five, and those Token.revoke
\* updates) and the field of a row that stands for each.
FieldOf ==
  [token |-> "value", user_id |-> "user", token_type |-> "type",
   expiry |-> "expires_at", created_at |-> "created_at", status |-> "status",
   revoked_at |-> "revoked_at", revocation_reason |-> "reason"]

\* Token.with_updates(**kwargs), lines 273-280: ValueError if an immutable
\* field is named; otherwise a new Token, type(self)(**{**self.__dict__,
\* **kwargs}), the fields of self overridden by kwargs.  self is not assigned.
Token_with_updates(self, kwargs) ==
  IF with_updates_rejects(DOMAIN kwargs)
  THEN [ok |-> FALSE, err |-> "ValueError"]
  ELSE [ok |-> TRUE, err |-> None,
        token |-> [f \in DOMAIN self |->
                     IF \E k \in DOMAIN kwargs : FieldOf[k] = f
                     THEN kwargs[CHOOSE k \in DOMAIN kwargs : FieldOf[k] = f]
                     ELSE self[f]]]

(* ------------------------- unit of work -------------------------------- *)
\* UnitOfWork.__init__: no session, not closed.  state stands for the pair
\* (_is_closed, _session): "uninit" = (False, None), "open" = (False, a
\* session), "closed" = (True, None); session names the session held (0 for
\* None) and tx tells whether that session has a transaction begun.
NewUnitOfWork == [state |-> "uninit", tx |-> FALSE, session |-> 0]

\* UnitOfWork.transaction: the outcome of entering the block.
transaction_enter ==
  IF uow.state # "open" THEN "RuntimeError"
  ELSE IF uow.tx THEN "InvalidRequestError"
  ELSE "ok"

\* Variant of UnitOfWork.rollback that leaves the session's pending writes.
UnitOfWork_rollback_keeps(w) == w

\* UnitOfWork.rollback: the session forgets everything since the last commit.
UnitOfWork_rollback(w) == db

\* UnitOfWork.commit (success): everything the session holds becomes durable.
UnitOfWork_commit(w) == w

TxOpen == [uow EXCEPT !.tx = TRUE]
TxClosed == [uow EXCEPT !.tx = FALSE]

(* ------------------------- call plumbing -------------------------------- *)
NoOut == [ok |-> FALSE, err |-> None]
Err(e) == [ok |-> FALSE, err |-> e]
\* An exception raised with a message.
ErrMsg(e, m) == [ok |-> FALSE, err |-> e, msg |-> m]

NoLoc == [op |-> None, n |-> <<"x", 0>>, arg |-> Forged, arg2 |-> Forged, pw |-> FALSE,
          type |-> None, scopes |-> {}, user |-> None,
          ent |-> NoToken, payload |-> BadPayload, out |-> NoOut, access |-> Forged,
          old |-> NoToken, cval |-> Forged, ctype |-> None, cscopes |-> {},
          cexp |-> 0, given |-> {}, todo |-> <<>>, count |-> 0,
          reason |-> None, pre |-> FALSE, with |-> {},
          confirm |-> TRUE, fields |-> {}]

\* A frame is a caller's position: label, stack of return labels, locals.
Frame(l, r, lc) == [pc |-> l, ret |-> r, loc |-> lc]
FrameOf(p) == Frame(pc[p], ret[p], loc[p])

\* return v: back to the label on top of the stack.
Ret(f, v) == Frame(Head(f.ret), Tail(f.ret), [f.loc EXCEPT !.out = v])

\* call the operation at label l and come back at the labels back.
CallSub(f, l, back, lc) == Frame(l, back \o f.ret, lc)

\* Rows of table tbl written by the call with nonce n.
CreatedBy(tbl, n) == {i \in 1..Len(tbl) : tbl[i].value.n = n}

(* ------------------------- TokenService.create_access_token ------------- *)
\* create_access_token, lines 231-262: payload, signed string, then create_token
\* with scopes=scopes (the caller's; None is stored as the empty set) and the
\* configured access lifetime.  l.given holds the scopes argument of a direct
\* call; the calls from create_token_pair and refresh_access_token pass none.
create_access_token_start(f, back, l) ==
  CallSub(f, "ct_insert", <<"ca_ret">> \o back,
          [l EXCEPT !.cval = create_jwt_payload(l.user, l.n, l.given),
                    !.ctype = ACCESS, !.cscopes = l.given,
                    !.cexp = settings.access])

\* create_access_token, lines 264-275: return (jwt_token, token), or TokenError.
create_access_token_ret(f) ==
  IF f.loc.out.ok
  THEN Ret(f, [ok |-> TRUE, err |-> None, string |-> f.loc.cval,
               token |-> f.loc.out.token])
  ELSE Ret(f, Err("TokenError"))

(* ------------------------- TokenService.create_refresh_token ------------ *)
\* create_refresh_token, lines 505-517: create_token with an opaque value,
\* type refresh and scope {refresh_token}.
create_refresh_token_start(f, back, l) ==
  CallSub(f, "ct_insert", <<"cr_ret">> \o back,
          [l EXCEPT !.cval = token_urlsafe(l.n),
                    !.ctype = REFRESH, !.cscopes = {"refresh_token"},
                    !.cexp = settings.refresh])

\* create_refresh_token, lines 519-522: a TokenError of create_token propagates;
\* otherwise token.with_updates(token=...) is evaluated, outside any try.
create_refresh_token_ret(f) ==
  IF ~f.loc.out.ok
  THEN Ret(f, Err("TokenError"))
  ELSE IF with_updates_rejects({"token"})
  THEN Ret(f, Err("ValueError"))
  ELSE Frame("cr_update", f.ret,
             [f.loc EXCEPT !.ent = f.loc.out.token,
                           !.cval = generate_opaque_token_string(f.loc.n)])

(* ------------------------- TokenService.refresh_access_token ------------ *)
\* refresh_access_token, lines 671-687: the result of verify_token(refresh_token,
\* REFRESH); not valid gives None; otherwise create_access_token for the user.
refresh_access_token_verified(f) ==
  IF ~f.loc.out.is_valid
  THEN Ret(f, Err(None))
  ELSE create_access_token_start(f, <<"rf_access">>,
         [f.loc EXCEPT !.user = f.loc.out.user, !.old = f.loc.out.token])

\* refresh_access_token, lines 689-692: a failed create_access_token gives None
\* (line 701); otherwise revoke_token(token_identifier=token.id, reason=...).
refresh_access_token_access(f) ==
  IF ~f.loc.out.ok
  THEN Ret(f, Err(None))
  ELSE CallSub(f, "rv_get", <<"rf_revoked">>,
               [f.loc EXCEPT !.access = f.loc.out.string,
                             !.arg2 = IdString(f.loc.old.id),
                             !.reason = "Refreshed with new token"])

\* refresh_access_token, lines 694-697: the result of revoke_token is not looked
\* at; create_refresh_token for the user.
refresh_access_token_revoked(f) ==
  create_refresh_token_start(f, <<"rf_refreshed">>, f.loc)

\* refresh_access_token, lines 699-703: the new pair, or None on any exception.
refresh_access_token_refreshed(f) ==
  IF ~f.loc.out.ok
  THEN Ret(f, Err(None))
  ELSE Ret(f, [ok |-> TRUE, err |-> None, access |-> f.loc.access,
               refresh |-> f.loc.out.string])

(* ------------------------- AuthService.create_token_pair ---------------- *)
\* create_token_pair, lines 138-151: the refresh token first; any exception is
\* re-raised as AuthenticationError (line 160); then the access token.
create_token_pair_refresh(f) ==
  IF ~f.loc.out.ok
  THEN Ret(f, Err("AuthenticationError"))
  ELSE create_access_token_start(f, <<"tp_access">>,
         [f.loc EXCEPT !.old = f.loc.out.token, !.arg2 = f.loc.out.string])

\* create_token_pair, lines 152-167: the pair, or AuthenticationError.
create_token_pair_access(f) ==
  IF ~f.loc.out.ok
  THEN Ret(f, Err("AuthenticationError"))
  ELSE Ret(f, [ok |-> TRUE, err |-> None, access |-> f.loc.out.string,
               refresh |-> f.loc.arg2])

(* ------------------------- AuthService.revoke_token, revoke_all_tokens -- *)
\* Variant of AuthService.revoke_all_tokens without the except clause.
AuthService_revoke_all_tokens_propagates(f) == Ret(f, f.loc.out)

\* AuthService.revoke_token, lines 224-232: the result of
\* TokenService.revoke_token; any exception gives False.
AuthService_revoke_token_ret(f) ==
  IF f.loc.out.err # None
  THEN Ret(f, [ok |-> FALSE, err |-> None])
  ELSE Ret(f, f.loc.out)

\* AuthService.revoke_all_tokens, lines 243-252: the count returned by
\* TokenService.revoke_user_tokens; any exception gives 0.
AuthService_revoke_all_tokens_ret(f) ==
  IF f.loc.out.err # None
  THEN Ret(f, [ok |-> TRUE, err |-> None, count |-> 0])
  ELSE Ret(f, f.loc.out)

(* ------------------------- UserAuthManagement --------------------------- *)
\* raise HTTPException(status_code=code, ...).
HTTPException(code) == ErrMsg("HTTPException", code)

\* The operations of UserAuthManagement that run a service call inside
\* "async with self._uow.transaction()".
Requests == {"login", "refresh_tokens", "logout", "change_password"}

\* The "except Exception" handler of each operation: login lines 172-178,
\* refresh_tokens 208-213, logout 233-238, change_password 328-336.
UserAuthManagement_error(op) ==
  CASE op = "login" -> HTTPException("401")
    [] op = "refresh_tokens" -> HTTPException("400")
    [] op = "logout" -> HTTPException("400")
    [] op = "change_password" -> HTTPException("500")

\* What the operation makes of the outcome of its service call.
\* login, lines 128-178: authenticate_user returns the user and the pair or
\* raises, and what it raises is no HTTPException (an unverified account has
\* made it raise AccountNotVerifiedError, so line 139 finds a verified one).
\* refresh_tokens, lines 194-213: None cannot be unpacked (TypeError).
\* logout, lines 229-230: the result of revoke_token is not looked at.
\* change_password, lines 308-336: HTTPException as it is, UserNotFoundError
\* as 404, anything else as 500.
UserAuthManagement_result(op, out) ==
  CASE op = "login" ->
         IF out.ok
         THEN [ok |-> TRUE, err |-> None, access |-> out.access, refresh |-> out.refresh]
         ELSE UserAuthManagement_error(op)
    [] op = "refresh_tokens" ->
         IF out.ok
         THEN [ok |-> TRUE, err |-> None, access |-> out.access, refresh |-> out.refresh]
         ELSE UserAuthManagement_error(op)
    [] op = "logout" ->
         IF out.err # None THEN UserAuthManagement_error(op)
         ELSE [ok |-> TRUE, err |-> None]
    [] op = "change_password" ->
         IF out.err = None THEN [ok |-> TRUE, err |-> None]
         ELSE IF out.err = "HTTPException" THEN out
         ELSE IF out.err = "UserNotFoundError" THEN HTTPException("404")
         ELSE UserAuthManagement_error(op)

\* change_password, lines 267-301: what get_my_profile raised goes on; a
\* wrong current password and a confirmation that differs are refused (400);
\* otherwise update_my_profile is given the new hash as "hashed_password".
change_password_profile(f) ==
  IF f.loc.out.err # None THEN Ret(f, f.loc.out)
  ELSE IF ~f.loc.pw THEN Ret(f, HTTPException("400"))
  ELSE IF ~f.loc.confirm THEN Ret(f, HTTPException("400"))
  ELSE CallSub(f, "up_start", <<"cp_updated">>,
               [f.loc EXCEPT !.fields = {"hashed_password"}])

\* change_password, lines 299-304: then revoke_user_tokens for the user, with
\* its default reason.
change_password_updated(f) ==
  IF f.loc.out.err # None THEN Ret(f, f.loc.out)
  ELSE CallSub(f, "ru_get", <<"cp_revoked">>,
               [f.loc EXCEPT !.reason = "User initiated logout"])

\* change_password, lines 304-314: the success message.
change_password_revoked(f) ==
  IF f.loc.out.err # None THEN Ret(f, f.loc.out)
  ELSE Ret(f, [ok |-> TRUE, err |-> None])

(* ------------------------- statements between round trips --------------- *)
LocalLabels == {"ca_start", "cr_start", "ca_ret", "cr_ret", "rf_verified", "rf_access",
                "rf_revoked", "rf_refreshed", "tp_refresh", "tp_access",
                "ar_token", "ar_all", "cp_profile", "cp_updated", "cp_revoked"}

Local(f) ==
  CASE f.pc = "ca_start" -> create_access_token_start(f, <<>>, f.loc)
    [] f.pc = "cr_start" -> create_refresh_token_start(f, <<>>, f.loc)
    [] f.pc = "ca_ret" -> create_access_token_ret(f)
    [] f.pc = "cr_ret" -> create_refresh_token_ret(f)
    [] f.pc = "rf_verified" -> refresh_access_token_verified(f)
    [] f.pc = "rf_access" -> refresh_access_token_access(f)
    [] f.pc = "rf_revoked" -> refresh_access_token_revoked(f)
    [] f.pc = "rf_refreshed" -> refresh_access_token_refreshed(f)
    [] f.pc = "tp_refresh" -> create_token_pair_refresh(f)
    [] f.pc = "tp_access" -> create_token_pair_access(f)
    [] f.pc = "ar_token" -> AuthService_revoke_token_ret(f)
    [] f.pc = "ar_all" -> AuthService_revoke_all_tokens_ret(f)
    [] f.pc = "cp_profile" -> change_password_profile(f)
    [] f.pc = "cp_updated" -> change_password_updated(f)
    [] f.pc = "cp_revoked" -> change_password_revoked(f)

\* A caller runs without suspending up to its next repository round trip.
RECURSIVE Run(_)
Run(f) == IF f.pc \in LocalLabels THEN Run(Local(f)) ELSE f

\* The operations whose completed calls are kept in log.
Logged == {"refresh_access_token"}

NoEntry == [op |-> None]

\* What a completed top-level call is remembered by: its inputs (pre: what
\* the caller knew to hold of them when calling; with: the calls in progress
\* when it started), the number of calls started by the time it completed,
\* its result, the types of the committed rows it created, the committed
\* state of the token it was given.
LogEntry(p, f) ==
  [n |-> f.loc.n, op |-> f.loc.op, arg |-> f.loc.arg, type |-> f.loc.type,
   user |-> f.loc.user, pw |-> f.loc.pw, scopes |-> f.loc.scopes, pre |-> f.loc.pre, with |-> f.loc.with, calls |-> ncalls,
   out |-> f.loc.out,
   made |-> {db'[i].type : i \in CreatedBy(db', f.loc.n)},
   old |-> Persisted(get_by_token(db', f.loc.arg))]

\* Caller p continues from frame f0 (db' is already determined).
Continue(p, f0) ==
  LET f == Run(f0)
  IN /\ Fixed
     /\ IF f.pc = "top_done"
        THEN /\ pc' = [pc EXCEPT ![p] = "idle"]
             /\ ret' = [ret EXCEPT ![p] = <<>>]
             /\ loc' = [loc EXCEPT ![p] = NoLoc]
             /\ last' = LogEntry(p, f)
             /\ log' = IF f.loc.op \in Logged THEN log \cup {LogEntry(p, f)} ELSE log
        ELSE /\ pc' = [pc EXCEPT ![p] = f.pc]
             /\ ret' = [ret EXCEPT ![p] = f.ret]
             /\ loc' = [loc EXCEPT ![p] = f.loc]
             /\ last' = NoEntry
             /\ UNCHANGED log

Return(p, v) == Continue(p, Ret(FrameOf(p), v))
Goto(p, l, lc) == Continue(p, Frame(l, ret[p], lc))

NoDb == UNCHANGED <<db, work, uow, faults>>

\* Settings.ACCESS_TOKEN_EXPIRE_SECONDS (7 days) and
\* REFRESH_TOKEN_EXPIRE_SECONDS (30 days), as get_token_service passes them.
DefaultSettings == [access |-> 60 * 60 * 24 * 7, refresh |-> 60 * 60 * 24 * 30]

\* No Token object is held and no method has been called on one.
NoResult == [op |-> None]

\* UserRegistrationService as get_user_registration_service builds it, one
\* instance for all callers, before any call: table is the committed users
\* table, unit tells whether self._uow holds a unit of work ("none" for
\* None), session holds the rows that unit's session has flushed and not
\* committed, call is each caller's position in register_user, count the
\* number of calls started, done the call completed by the latest step.
IdleCall == [pc |-> "idle"]
NoDone == [n |-> 0]
NoRegistration ==
  [table |-> <<>>, unit |-> "none", session |-> <<>>,
   call |-> [p \in Procs |-> IdleCall], count |-> 0, done |-> NoDone]

Init ==
  /\ db = <<>>
  /\ work = <<>>
  /\ users = [u \in Users |-> [exists |-> TRUE, enabled |-> TRUE, verified |-> TRUE,
                            hashed_password |-> 0, bio |-> 0]]
  /\ uow = NewUnitOfWork
  /\ pc = [p \in Procs |-> "idle"]
  /\ ret = [p \in Procs |-> <<>>]
  /\ loc = [p \in Procs |-> NoLoc]
  /\ last = NoEntry
  /\ ncalls = 0
  /\ faults = 0
  /\ log = {}
  /\ now = 0
  /\ settings = DefaultSettings
  /\ entity = NoToken
  /\ result = NoResult
  /\ registration = NoRegistration

\* UnitOfWork.__aenter__: a session is opened; a closed unit cannot be entered again.
UnitOfWork_aenter ==
  /\ uow.state = "uninit"
  /\ uow' = [state |-> "open", tx |-> FALSE, session |-> 1]
  /\ last' = NoEntry
  /\ Fixed
  /\ UNCHANGED <<db, work, users, pc, ret, loc, ncalls, faults, log>>

\* Variant of UnitOfWork.commit whose failure path does not roll back.
UnitOfWork_commit_step_no_rollback(ok) ==
  \/ /\ ok
     /\ db' = UnitOfWork_commit(work)
     /\ UNCHANGED <<work, faults>>
     /\ uow' = TxClosed
  \/ /\ ~ok
     /\ faults < MaxFaults
     /\ faults' = faults + 1
     /\ UNCHANGED <<db, work>>
     /\ uow' = TxClosed

\* Variant of UnitOfWork.commit whose failure leaves the pending writes
\* persisted.
UnitOfWork_commit_step_persists(ok) ==
  /\ db' = UnitOfWork_commit(work)
  /\ uow' = TxClosed
  /\ \/ ok /\ UNCHANGED <<work, faults>>
     \/ /\ ~ok
        /\ faults < MaxFaults
        /\ faults' = faults + 1
        /\ work' = UnitOfWork_commit(work)

\* UnitOfWork.commit, lines 62-71, with the session commit succeeding or failing:
\* on failure the unit rolls back and re-raises.  ok tells the caller which.
UnitOfWork_commit_step(ok) ==
  \/ /\ ok
     /\ db' = UnitOfWork_commit(work)
     /\ UNCHANGED <<work, faults>>
     /\ uow' = TxClosed
  \/ /\ ~ok
     /\ faults < MaxFaults
     /\ faults' = faults + 1
     /\ work' = UnitOfWork_rollback(work)
     /\ UNCHANGED db
     /\ uow' = TxClosed

(* ------------------------- TokenService.create_token -------------------- *)
\* create_token, lines 134-161: build the entity, open the transaction, insert.
\* Any exception inside the try is re-raised as TokenError.
create_token_insert(p) ==
  /\ pc[p] = "ct_insert"
  /\ UNCHANGED <<users, ncalls, faults, db>>
  /\ IF \/ TokenExpiry_post_init_raises(TokenExpiry_from_now(loc[p].cexp))
        \/ transaction_enter # "ok"
     THEN /\ UNCHANGED <<work, uow>>
          /\ Return(p, Err("TokenError"))
     ELSE /\ Len(work) < MaxTokens
          /\ LET t == NewToken(Len(work) + 1, loc[p].cval, loc[p].user,
                               loc[p].ctype, loc[p].cscopes,
                               TokenExpiry_from_now(loc[p].cexp))
             IN /\ work' = Append(work, t)
                /\ uow' = TxOpen
                /\ Goto(p, "ct_commit", [loc[p] EXCEPT !.ent = t])

\* create_token, lines 162-169: commit; a failing commit becomes TokenError.
create_token_commit(p) ==
  /\ pc[p] = "ct_commit"
  /\ UNCHANGED <<users, ncalls>>
  /\ \E ok \in BOOLEAN :
       /\ UnitOfWork_commit_step(ok)
       /\ IF ok THEN Return(p, [ok |-> TRUE, err |-> None, token |-> loc[p].ent])
                ELSE Return(p, Err("TokenError"))

\* create_refresh_token, lines 525-526: transaction, update_token.
create_refresh_token_update(p) ==
  /\ pc[p] = "cr_update"
  /\ UNCHANGED <<users, ncalls, faults, db>>
  /\ IF transaction_enter # "ok"
     THEN /\ UNCHANGED <<work, uow>>
          /\ Return(p, Err(transaction_enter))
     ELSE /\ work' = update_token(work, loc[p].ent)
          /\ uow' = TxOpen
          /\ Goto(p, "cr_commit", loc[p])

\* create_refresh_token, lines 527-530: commit, return (str(token.token), token).
create_refresh_token_commit(p) ==
  /\ pc[p] = "cr_commit"
  /\ UNCHANGED <<users, ncalls>>
  /\ \E ok \in BOOLEAN :
       /\ UnitOfWork_commit_step(ok)
       /\ IF ok THEN Return(p, [ok |-> TRUE, err |-> None, string |-> loc[p].cval,
                                token |-> loc[p].ent])
                ELSE Return(p, Err("DatabaseError"))

(* ------------------------- TokenService.verify_token -------------------- *)
Invalid(e) == [ok |-> FALSE, err |-> e, is_valid |-> FALSE]

\* get_token_by_value, lines 336-341: the lookup in its own transaction block;
\* any exception, the failing begin included, gives None.
get_token_by_value(v) ==
  IF transaction_enter # "ok" THEN NoToken ELSE get_by_token(work, v)

\* Variant of verify_token with the required scopes checked before the
\* persisted status.
verify_token_checks_scopes_first(p) ==
  /\ pc[p] = "vt_checks"
  /\ UNCHANGED <<users, ncalls>>
  /\ NoDb
  /\ LET payload == decode_jwt(loc[p].arg)
         token == get_token_by_value(loc[p].arg)
     IN IF payload.kind = "bad"
        THEN Return(p, Invalid("Invalid token"))
        ELSE IF loc[p].type # None /\ payload.type # loc[p].type
        THEN Return(p, Invalid("Invalid token type"))
        ELSE IF token.id = 0
        THEN Return(p, Invalid("Token not found"))
        ELSE IF loc[p].scopes # {} /\ ~has_all_scopes(payload.scopes, loc[p].scopes)
        THEN Return(p, Invalid("Insufficient permissions"))
        ELSE IF token.status # ACTIVE
        THEN IF token.status \in {EXPIRED, REVOKED}
             THEN Return(p, Invalid("Internal server error"))
             ELSE Return(p, Invalid("Token is not active"))
        ELSE Goto(p, "vt_user", [loc[p] EXCEPT !.payload = payload, !.ent = token])

\* verify_token, lines 411-448: decode, expected type, persisted lookup,
\* persisted status, required scopes.  TokenExpiredError / TokenRevokedError
\* raised at lines 435/437 are caught at line 475.
verify_token_checks(p) ==
  /\ pc[p] = "vt_checks"
  /\ UNCHANGED <<users, ncalls>>
  /\ NoDb
  /\ LET payload == decode_jwt(loc[p].arg)
         token == get_token_by_value(loc[p].arg)
     IN IF payload.kind = "bad"
        THEN Return(p, Invalid("Invalid token"))
        ELSE IF loc[p].type # None /\ payload.type # loc[p].type
        THEN Return(p, Invalid("Invalid token type"))
        ELSE IF token.id = 0
        THEN Return(p, Invalid("Token not found"))
        ELSE IF token.status # ACTIVE
        THEN IF token.status \in {EXPIRED, REVOKED}
             THEN Return(p, Invalid("Internal server error"))
             ELSE Return(p, Invalid("Token is not active"))
        ELSE IF loc[p].scopes # {} /\ ~has_all_scopes(payload.scopes, loc[p].scopes)
        THEN Return(p, Invalid("Insufficient permissions"))
        ELSE Goto(p, "vt_user", [loc[p] EXCEPT !.payload = payload, !.ent = token])

\* verify_token, lines 451-462: second transaction block; owning user;
\* last_used_at is set on the copy read earlier and the copy is written back.
verify_token_user(p) ==
  /\ pc[p] = "vt_user"
  /\ UNCHANGED <<users, ncalls, faults, db>>
  /\ IF transaction_enter # "ok"
     THEN /\ UNCHANGED <<work, uow>>
          /\ Return(p, Invalid("Error verifying user"))
     ELSE IF get_user_by_id(loc[p].payload.sub) = None
     THEN /\ UNCHANGED <<work, uow>>
          /\ Return(p, Invalid("User not found"))
     ELSE LET token == [loc[p].ent EXCEPT !.last_used = loc[p].n]
          IN /\ work' = update_token(work, token)
             /\ uow' = TxOpen
             /\ Goto(p, "vt_commit", [loc[p] EXCEPT !.ent = token])

\* verify_token, lines 463-473: commit and report valid; a failing commit is
\* rolled back and reported as "Error verifying user".
verify_token_commit(p) ==
  /\ pc[p] = "vt_commit"
  /\ UNCHANGED <<users, ncalls>>
  /\ \E ok \in BOOLEAN :
       /\ UnitOfWork_commit_step(ok)
       /\ IF ok THEN Return(p, [ok |-> TRUE, err |-> None, is_valid |-> TRUE,
                                user |-> loc[p].payload.sub, token |-> loc[p].ent])
                ELSE Return(p, Invalid("Error verifying user"))

(* ------------------------- TokenService.revoke_token -------------------- *)
RevokeFalse == [ok |-> FALSE, err |-> None]

\* Variant of the refusal of revoke_token that only refuses an absent token.
revoke_token_refuses_absent_only(token) == token.id = 0

\* revoke_token, lines 548-558: "if not token" and
\* "if token.status != TokenStatus.ACTIVE" both return False.
revoke_token_refuses(token) == token.id = 0 \/ token.status # ACTIVE

\* revoke_token, lines 544-564: lookup by the identifier in the token column;
\* absent or not active gives False; otherwise the copy is marked revoked and
\* written back.  Every exception gives False (line 573).
revoke_token_get(p) ==
  /\ pc[p] = "rv_get"
  /\ UNCHANGED <<users, ncalls, faults, db>>
  /\ IF transaction_enter # "ok"
     THEN /\ UNCHANGED <<work, uow>>
          /\ Return(p, RevokeFalse)
     ELSE LET token == get_by_token(work, loc[p].arg2)
          IN IF revoke_token_refuses(token)
             THEN /\ UNCHANGED <<work, uow>>
                  /\ Return(p, RevokeFalse)
             ELSE LET t2 == [token EXCEPT !.status = REVOKED,
                                          !.revoked_at = loc[p].n,
                                          !.reason = loc[p].reason]
                  IN /\ work' = update_token(work, t2)
                     /\ uow' = TxOpen
                     /\ Goto(p, "rv_commit", [loc[p] EXCEPT !.ent = t2])

\* revoke_token, lines 565-577: commit and return True; a failing commit is
\* rolled back and gives False.
revoke_token_commit(p) ==
  /\ pc[p] = "rv_commit"
  /\ UNCHANGED <<users, ncalls>>
  /\ \E ok \in BOOLEAN :
       /\ UnitOfWork_commit_step(ok)
       /\ IF ok THEN Return(p, [ok |-> TRUE, err |-> None])
                ELSE Return(p, RevokeFalse)

(* ------------------------- AuthService.authenticate_user ---------------- *)
ChecksPassed == [ok |-> TRUE, err |-> None]

\* Variant of the checks of authenticate_user without the password check.
authenticate_user_checks_no_password(u, pw) ==
  LET user == get_user_by_id(u)
  IN IF user = None
     THEN ErrMsg("InvalidCredentialsError", "Invalid email or password")
     ELSE IF ~users[user].enabled
     THEN ErrMsg("AccountDisabledError", "Account is disabled")
     ELSE IF ~users[user].verified
     THEN ErrMsg("AccountNotVerifiedError", "Please verify your email first")
     ELSE ChecksPassed

\* Variant of the checks of authenticate_user that tells an unknown email apart.
authenticate_user_checks_names_email(u, pw) ==
  LET user == get_user_by_id(u)
  IN IF user = None
     THEN ErrMsg("InvalidCredentialsError", "Unknown email")
     ELSE IF ~users[user].enabled
     THEN ErrMsg("AccountDisabledError", "Account is disabled")
     ELSE IF ~pw
     THEN ErrMsg("InvalidCredentialsError", "Invalid email or password")
     ELSE IF ~users[user].verified
     THEN ErrMsg("AccountNotVerifiedError", "Please verify your email first")
     ELSE ChecksPassed

\* Variant of the checks of authenticate_user with the password checked before
\* the account's enabled flag.
authenticate_user_checks_password_first(u, pw) ==
  LET user == get_user_by_id(u)
  IN IF user = None
     THEN ErrMsg("InvalidCredentialsError", "Invalid email or password")
     ELSE IF ~pw
     THEN ErrMsg("InvalidCredentialsError", "Invalid email or password")
     ELSE IF ~users[user].enabled
     THEN ErrMsg("AccountDisabledError", "Account is disabled")
     ELSE IF ~users[user].verified
     THEN ErrMsg("AccountNotVerifiedError", "Please verify your email first")
     ELSE ChecksPassed

\* authenticate_user, lines 76-97: user by email (absent: InvalidCredentialsError),
\* enabled (AccountDisabledError), password (InvalidCredentialsError, the same
\* message), verified (AccountNotVerifiedError); the exception raised, if any.
\* pw tells whether the password given is the user's.
authenticate_user_checks(u, pw) ==
  LET user == get_user_by_id(u)
  IN IF user = None
     THEN ErrMsg("InvalidCredentialsError", "Invalid email or password")
     ELSE IF ~users[user].enabled
     THEN ErrMsg("AccountDisabledError", "Account is disabled")
     ELSE IF ~pw
     THEN ErrMsg("InvalidCredentialsError", "Invalid email or password")
     ELSE IF ~users[user].verified
     THEN ErrMsg("AccountNotVerifiedError", "Please verify your email first")
     ELSE ChecksPassed

\* Variant of authenticate_user whose handler lets an exception of
\* uow.transaction() through as it is.
authenticate_user_start_unwrapped(p) ==
  /\ pc[p] = "au_start"
  /\ UNCHANGED <<users, ncalls, faults, db, work>>
  /\ IF transaction_enter # "ok"
     THEN /\ UNCHANGED uow
          /\ Return(p, Err(transaction_enter))
     ELSE LET raised == authenticate_user_checks(loc[p].user, loc[p].pw)
          IN IF ~raised.ok
             THEN /\ UNCHANGED uow
                  /\ Return(p, raised)
             ELSE /\ uow' = TxOpen
                  /\ Continue(p, create_refresh_token_start(FrameOf(p),
                                   <<"tp_refresh", "au_pair">>, loc[p]))

\* authenticate_user, lines 74-100: the transaction block is entered; the
\* checks; then create_token_pair inside the block.  The three credential
\* errors are re-raised as they are (line 108); a failing transaction() is an
\* unexpected exception (line 112).
authenticate_user_start(p) ==
  /\ pc[p] = "au_start"
  /\ UNCHANGED <<users, ncalls, faults, db, work>>
  /\ IF transaction_enter # "ok"
     THEN /\ UNCHANGED uow
          /\ Return(p, Err("AuthenticationError"))
     ELSE LET raised == authenticate_user_checks(loc[p].user, loc[p].pw)
          IN IF ~raised.ok
             THEN /\ UNCHANGED uow
                  /\ Return(p, raised)
             ELSE /\ uow' = TxOpen
                  /\ Continue(p, create_refresh_token_start(FrameOf(p),
                                   <<"tp_refresh", "au_pair">>, loc[p]))

\* authenticate_user, lines 100-118, and UnitOfWork.transaction, lines 91-96:
\* an exception of create_token_pair leaves the block, which rolls back, and
\* is re-raised as AuthenticationError; otherwise the block commits on exit
\* and the user and the pair are returned.
authenticate_user_pair(p) ==
  /\ pc[p] = "au_pair"
  /\ UNCHANGED <<users, ncalls, faults>>
  /\ IF ~loc[p].out.ok
     THEN /\ work' = UnitOfWork_rollback(work)
          /\ UNCHANGED db
          /\ uow' = TxClosed
          /\ Return(p, Err("AuthenticationError"))
     ELSE /\ db' = UnitOfWork_commit(work)
          /\ UNCHANGED work
          /\ uow' = TxClosed
          /\ Return(p, [ok |-> TRUE, err |-> None, user |-> loc[p].user,
                        access |-> loc[p].out.access,
                        refresh |-> loc[p].out.refresh])

RequiredScopes == {{}}

(* ------------------------- callers -------------------------------------- *)
\* Token strings a client can present: those handed out, and one never issued.
Presentable == {db[i].value : i \in 1..Len(db)} \cup {Forged}

\* v is the value of a committed, active refresh token whose user exists.
ValidRefresh(v) ==
  \E i \in 1..Len(db) : /\ db[i].value = v
                        /\ db[i].type = REFRESH
                        /\ db[i].status = ACTIVE
                        /\ users[db[i].user].exists

\* Caller p, idle, invokes operation op and runs up to its first round trip.
Start(p, l, back, lc) ==
  /\ pc[p] = "idle"
  /\ uow.state = "open"
  /\ ncalls < MaxCalls
  /\ ncalls' = ncalls + 1
  /\ last' = NoEntry
  /\ UNCHANGED <<users, log>>
  /\ NoDb
  /\ Fixed
  /\ LET f == Run(Frame(l, back, [lc EXCEPT !.n = <<"c", ncalls + 1>>,
                                             !.with = {loc[q].n : q \in {r \in Procs : pc[r] # "idle"}}]))
     IN /\ pc' = [pc EXCEPT ![p] = f.pc]
        /\ ret' = [ret EXCEPT ![p] = f.ret]
        /\ loc' = [loc EXCEPT ![p] = f.loc]

Call_create_access_token(p) ==
  \E u \in Users :
    Start(p, "ca_start", <<"top_done">>,
          [NoLoc EXCEPT !.op = "create_access_token", !.user = u])

Call_create_refresh_token(p) ==
  \E u \in Users :
    Start(p, "cr_start", <<"top_done">>,
          [NoLoc EXCEPT !.op = "create_refresh_token", !.user = u])

Call_create_token_pair(p) ==
  \E u \in Users :
    Start(p, "cr_start", <<"tp_refresh", "top_done">>,
          [NoLoc EXCEPT !.op = "create_token_pair", !.user = u])

Call_verify_token(p) ==
  \E v \in Presentable, ty \in {None, ACCESS, REFRESH}, sc \in RequiredScopes :
    Start(p, "vt_checks", <<"top_done">>,
          [NoLoc EXCEPT !.op = "verify_token", !.arg = v, !.type = ty, !.scopes = sc])

Call_revoke_token(p) ==
  \E v \in Presentable \cup {IdString(i) : i \in 1..Len(db)} :
    Start(p, "rv_get", <<"top_done">>,
          [NoLoc EXCEPT !.op = "revoke_token", !.arg = v, !.arg2 = v,
                        !.reason = "Revoked by user",
                        !.pre = Persisted(get_by_token(db, v))])

Call_refresh_access_token(p) ==
  \E v \in Presentable :
    Start(p, "vt_checks", <<"rf_verified", "top_done">>,
          [NoLoc EXCEPT !.op = "refresh_access_token", !.arg = v, !.type = REFRESH,
                        !.pre = ValidRefresh(v)])

Call_authenticate_user(p) ==
  \E u \in Users \cup {"nobody"}, pw \in BOOLEAN :
    Start(p, "au_start", <<"top_done">>,
          [NoLoc EXCEPT !.op = "authenticate_user", !.user = u, !.pw = pw,
                        !.pre = /\ u \in Users
                                /\ pw
                                /\ users[u].exists
                                /\ users[u].enabled
                                /\ users[u].verified])

\* UserRepositoryImpl.delete_user_by_id: the user is soft-deleted.
delete_user_by_id(u) ==
  /\ users[u].exists
  /\ \A p \in Procs : pc[p] = "idle"
  /\ users' = [users EXCEPT ![u].exists = FALSE]
  /\ last' = NoEntry
  /\ Fixed
  /\ UNCHANGED <<db, work, uow, pc, ret, loc, ncalls, faults, log>>

Step(p) ==
  \/ create_token_insert(p)
  \/ create_token_commit(p)
  \/ verify_token_checks(p)
  \/ verify_token_user(p)
  \/ verify_token_commit(p)
  \/ revoke_token_get(p)
  \/ revoke_token_commit(p)
  \/ authenticate_user_start(p)
  \/ authenticate_user_pair(p)

Call(p) ==
  \/ Call_create_access_token(p)
  \/ Call_create_refresh_token(p)
  \/ Call_create_token_pair(p)
  \/ Call_verify_token(p)
  \/ Call_revoke_token(p)
  \/ Call_refresh_access_token(p)
  \/ Call_authenticate_user(p)

Next ==
  \/ UnitOfWork_aenter
  \/ \E p \in Procs : Step(p)
  \/ \E p \in Procs : Call(p)
  \/ \E u \in Users : delete_user_by_id(u)

Spec == Init /\ [][Next]_vars

(* ------------------------- logins against any account state ------------- *)
\* The states an account can be in: enabled or disabled, verified or not.
InitAuth ==
  /\ db = <<>>
  /\ work = <<>>
  /\ users \in [Users -> [exists : {TRUE}, enabled : BOOLEAN, verified : BOOLEAN,
                        hashed_password : {0}, bio : {0}]]
  /\ uow = NewUnitOfWork
  /\ pc = [p \in Procs |-> "idle"]
  /\ ret = [p \in Procs |-> <<>>]
  /\ loc = [p \in Procs |-> NoLoc]
  /\ last = NoEntry
  /\ ncalls = 0
  /\ faults = 0
  /\ log = {}
  /\ now = 0
  /\ settings = DefaultSettings
  /\ entity = NoToken
  /\ result = NoResult
  /\ registration = NoRegistration

NextAuth ==
  \/ UnitOfWork_aenter
  \/ \E p \in Procs : Call_authenticate_user(p)
  \/ \E p \in Procs : authenticate_user_start(p)
  \/ \E p \in Procs : create_token_insert(p)
  \/ \E p \in Procs : authenticate_user_pair(p)
  \/ \E u \in Users : delete_user_by_id(u)

SpecAuth == InitAuth /\ [][NextAuth]_vars

(* ------------------------- TokenService.revoke_user_tokens -------------- *)
\* Token owners: create_access_token is handed the User entity, it looks
\* nothing up, so an owner needs no row in users.
Owners == {"u1", "u2"}

UserLogoutReason == "User initiated logout"

\* Variant of get_active_tokens_for_user without the user_id condition.
get_active_tokens_for_any_user(tbl, u) ==
  SelectSeq(tbl, LAMBDA t : t.status = ACTIVE /\ t.expires_at > now)

\* TokenRepositoryImpl.get_active_tokens_for_user with
\* _build_token_conditions(user_id, status=ACTIVE, not_expired=True): the rows
\* of the user with status active and expires_at > now, as entities.
get_active_tokens_for_user(tbl, u) ==
  SelectSeq(tbl, LAMBDA t : t.user = u /\ t.status = ACTIVE /\ t.expires_at > now)

\* revoke_user_tokens, lines 591-593: enter the transaction, fetch the tokens.
\* Nothing is caught: a failure to enter propagates.
revoke_user_tokens_get(p) ==
  /\ pc[p] = "ru_get"
  /\ UNCHANGED <<users, ncalls, faults, db, work>>
  /\ IF transaction_enter # "ok"
     THEN /\ UNCHANGED uow
          /\ Return(p, Err(transaction_enter))
     ELSE LET tokens == get_active_tokens_for_user(work, loc[p].user)
          IN /\ uow' = TxOpen
             /\ Goto(p, IF tokens = <<>> THEN "ru_commit" ELSE "ru_update",
                     [loc[p] EXCEPT !.todo = tokens, !.count = 0])

\* revoke_user_tokens, lines 595-600: one turn of the loop; the fetched copy
\* is marked revoked and written back, and counted.
revoke_user_tokens_update(p) ==
  /\ pc[p] = "ru_update"
  /\ UNCHANGED <<users, ncalls, faults, db, uow>>
  /\ LET token == Head(loc[p].todo)
         t2 == [token EXCEPT !.status = REVOKED,
                             !.revoked_at = loc[p].n,
                             !.reason = loc[p].reason]
         rest == Tail(loc[p].todo)
     IN /\ work' = update_token(work, t2)
        /\ Goto(p, IF rest = <<>> THEN "ru_commit" ELSE "ru_update",
                [loc[p] EXCEPT !.todo = rest, !.count = @ + 1])

\* revoke_user_tokens, lines 602-603: commit and return the count; a failing
\* commit is rolled back and its exception propagates.
revoke_user_tokens_commit(p) ==
  /\ pc[p] = "ru_commit"
  /\ UNCHANGED <<users, ncalls>>
  /\ \E ok \in BOOLEAN :
       /\ UnitOfWork_commit_step(ok)
       /\ IF ok THEN Return(p, [ok |-> TRUE, err |-> None, count |-> loc[p].count])
                ELSE Return(p, Err("SQLAlchemyError"))

Call_create_access_token_of(p) ==
  \E u \in Owners :
    Start(p, "ca_start", <<"top_done">>,
          [NoLoc EXCEPT !.op = "create_access_token", !.user = u])

\* pre keeps the tokens table as it is when the call is made.
Call_revoke_user_tokens(p) ==
  \E u \in Owners :
    Start(p, "ru_get", <<"top_done">>,
          [NoLoc EXCEPT !.op = "revoke_user_tokens", !.user = u,
                        !.reason = UserLogoutReason, !.pre = db])

\* Time passes up to the instant a persisted token expires.
Tick ==
  /\ \E i \in 1..Len(db) : /\ db[i].expires_at > now
                           /\ now' = db[i].expires_at
  /\ last' = NoEntry
  /\ UNCHANGED <<db, work, users, uow, pc, ret, loc, ncalls, faults, log,
                 settings, entity, result, registration>>

NextRevokeAll ==
  \/ UnitOfWork_aenter
  \/ Tick
  \/ \E p \in Procs : Call_create_access_token_of(p)
  \/ \E p \in Procs : create_token_insert(p)
  \/ \E p \in Procs : create_token_commit(p)
  \/ \E p \in Procs : Call_revoke_user_tokens(p)
  \/ \E p \in Procs : revoke_user_tokens_get(p)
  \/ \E p \in Procs : revoke_user_tokens_update(p)
  \/ \E p \in Procs : revoke_user_tokens_commit(p)

SpecRevokeAll == Init /\ [][NextRevokeAll]_vars

(* ------------------------- scoped tokens -------------------------------- *)
\* Scopes a caller of create_access_token gives (none, or a set), and scopes
\* a caller of verify_token requires.
GivenScopes == {{}, {"read"}, {"admin"}, {"read", "write"}}
AskedScopes == {{"admin"}, {"read", "admin"}}

Call_create_access_token_scoped(p) ==
  \E u \in Users, sc \in GivenScopes :
    Start(p, "ca_start", <<"top_done">>,
          [NoLoc EXCEPT !.op = "create_access_token", !.user = u, !.given = sc])

\* pre tells whether a token with this value is persisted and active when the
\* call is made.
Call_verify_token_scoped(p) ==
  \E v \in Presentable, sc \in AskedScopes :
    Start(p, "vt_checks", <<"top_done">>,
          [NoLoc EXCEPT !.op = "verify_token", !.arg = v, !.type = ACCESS,
                        !.scopes = sc,
                        !.pre = get_by_token(db, v).id # 0
                                /\ get_by_token(db, v).status = ACTIVE])

NextScopes ==
  \/ UnitOfWork_aenter
  \/ \E p \in Procs : Call_create_access_token_scoped(p)
  \/ \E p \in Procs : create_token_insert(p)
  \/ \E p \in Procs : create_token_commit(p)
  \/ \E p \in Procs : Call_verify_token_scoped(p)
  \/ \E p \in Procs : verify_token_checks(p)
  \/ \E p \in Procs : verify_token_user(p)
  \/ \E p \in Procs : verify_token_commit(p)

SpecScopes == Init /\ [][NextScopes]_vars

(* ------------------------- configured lifetimes ------------------------- *)
\* Lifetimes TokenService can be constructed with: __init__ (lines 93-98)
\* refuses only a missing or zero value.
Lifetimes ==
  {-MIN_TOKEN_LIFETIME, MIN_TOKEN_LIFETIME - 1, MIN_TOKEN_LIFETIME,
   MAX_TOKEN_LIFETIME, MAX_TOKEN_LIFETIME + 1}

InitLifetime ==
  /\ db = <<>>
  /\ work = <<>>
  /\ users = [u \in Users |-> [exists |-> TRUE, enabled |-> TRUE, verified |-> TRUE,
                            hashed_password |-> 0, bio |-> 0]]
  /\ uow = NewUnitOfWork
  /\ pc = [p \in Procs |-> "idle"]
  /\ ret = [p \in Procs |-> <<>>]
  /\ loc = [p \in Procs |-> NoLoc]
  /\ last = NoEntry
  /\ ncalls = 0
  /\ faults = 0
  /\ log = {}
  /\ now = 0
  /\ settings \in [access : Lifetimes, refresh : Lifetimes]
  /\ entity = NoToken
  /\ result = NoResult
  /\ registration = NoRegistration

NextLifetime ==
  \/ UnitOfWork_aenter
  \/ \E p \in Procs : Call_create_access_token(p)
  \/ \E p \in Procs : Call_create_refresh_token(p)
  \/ \E p \in Procs : create_token_insert(p)
  \/ \E p \in Procs : create_token_commit(p)

SpecLifetime == InitLifetime /\ [][NextLifetime]_vars

(* ------------------------- direct calls on a Token ---------------------- *)
\* Token objects a caller can hold: access or refresh, active or revoked.
Entities ==
  {[NewToken(1, IF ty = ACCESS THEN create_jwt_payload("u1", <<"c", 1>>, {})
                               ELSE token_urlsafe(<<"c", 1>>),
             "u1", ty, {}, [created_at |-> 0, expires_at |-> MIN_TOKEN_LIFETIME])
      EXCEPT !.status = st,
             !.revoked_at = IF st = REVOKED THEN <<"c", 2>> ELSE <<>>] :
     ty \in {ACCESS, REFRESH}, st \in {ACTIVE, REVOKED}}

\* A value for each field that differs from the one every object in Entities has.
NewValue ==
  [token |-> Forged, user_id |-> "u2", token_type |-> "api",
   expiry |-> MAX_TOKEN_LIFETIME, created_at |-> 1, status |-> USED,
   revoked_at |-> <<"c", 3>>, revocation_reason |-> "Revoked by user"]

InitEntity ==
  /\ db = <<>>
  /\ work = <<>>
  /\ users = [u \in Users |-> [exists |-> TRUE, enabled |-> TRUE, verified |-> TRUE,
                            hashed_password |-> 0, bio |-> 0]]
  /\ uow = NewUnitOfWork
  /\ pc = [p \in Procs |-> "idle"]
  /\ ret = [p \in Procs |-> <<>>]
  /\ loc = [p \in Procs |-> NoLoc]
  /\ last = NoEntry
  /\ ncalls = 0
  /\ faults = 0
  /\ log = {}
  /\ now = 0
  /\ settings = DefaultSettings
  /\ entity \in Entities
  /\ result = NoResult
  /\ registration = NoRegistration

\* A caller calls entity.with_updates(**kwargs); result keeps the object as
\* it was before the call, the names given and the outcome.
Call_with_updates ==
  \E names \in SUBSET DOMAIN FieldOf :
    LET kwargs == [k \in names |-> NewValue[k]]
    IN /\ result' = [op |-> "with_updates", self |-> entity, fields |-> names,
                     out |-> Token_with_updates(entity, kwargs)]
       /\ UNCHANGED <<entity, db, work, users, uow, pc, ret, loc, last, ncalls,
                      faults, log, now, settings, registration>>

NextEntity == Call_with_updates

SpecEntity == InitEntity /\ [][NextEntity]_vars

(* ------------------------- direct calls on the UnitOfWork --------------- *)
\* Variant of the check of __aenter__ that lets a closed unit in.
UnitOfWork_aenter_never_raises == FALSE

\* __aenter__, lines 36-37: RuntimeError only if the unit is closed.
UnitOfWork_aenter_raises == uow.state = "closed"

\* users / tokens, lines 52-53 and 58-59: RuntimeError if there is no
\* factory or the unit is closed.
UnitOfWork_property_raises == uow.state # "open"

\* commit and transaction, lines 64-65 and 88-89: RuntimeError if the unit
\* is closed or has no session.
UnitOfWork_use_raises == uow.state # "open"

\* Variant of rollback that, like commit, refuses a unit that is not open.
UnitOfWork_rollback_refuses == uow.state # "open"

\* rollback, lines 73-76: no check raises; a unit that is closed or has no
\* session is left alone.
UnitOfWork_rollback_raises == FALSE

\* What a call on the unit leaves behind: the operation, its outcome, and
\* the unit, the session's view and the table as they were before it.
Outcome(op, out) ==
  [op |-> op, out |-> out, uow0 |-> uow, work0 |-> work, db0 |-> db]

Done == [ok |-> TRUE, err |-> None]

\* What the direct calls on the unit leave alone.
UowRest ==
  UNCHANGED <<users, ret, loc, last, ncalls, log, now, settings, entity, registration>>

\* uow.__aenter__(), lines 35-41, called while no caller is inside a
\* transaction block: a closed unit raises; otherwise a new session and a new
\* factory replace whatever the unit held.
Call_aenter ==
  /\ \A p \in Procs : pc[p] = "idle"
  /\ UowRest
  /\ UNCHANGED <<db, pc, faults>>
  /\ IF UnitOfWork_aenter_raises
     THEN /\ result' = Outcome("aenter", Err("RuntimeError"))
          /\ UNCHANGED <<uow, work>>
     ELSE /\ uow.session < MaxSessions
          /\ uow' = [state |-> "open", tx |-> FALSE, session |-> uow.session + 1]
          /\ work' = db
          /\ result' = Outcome("aenter", Done)

\* uow.users / uow.tokens, lines 50-60.
Call_property ==
  /\ UowRest
  /\ UNCHANGED <<db, work, uow, pc, faults>>
  /\ \E op \in {"users", "tokens"} :
       result' = Outcome(op, IF UnitOfWork_property_raises
                             THEN Err("RuntimeError") ELSE Done)

\* uow.tokens.create_token(...): a write through the repository is pending in
\* the session, which begins a transaction if none is begun.
Call_write ==
  /\ ~UnitOfWork_property_raises
  /\ Len(work) < MaxTokens
  /\ UowRest
  /\ UNCHANGED <<db, pc, faults>>
  /\ work' = Append(work, NewToken(Len(work) + 1, token_urlsafe(<<"w", Len(work) + 1>>),
                                   "u1", REFRESH, {},
                                   TokenExpiry_from_now(settings.refresh)))
  /\ uow' = TxOpen
  /\ result' = Outcome("write", Done)

\* uow.commit(), lines 62-71: RuntimeError on a unit that is not open;
\* otherwise the session commits, or fails, is rolled back and the failure is
\* re-raised.
Call_commit ==
  /\ UowRest
  /\ UNCHANGED pc
  /\ IF UnitOfWork_use_raises
     THEN /\ result' = Outcome("commit", Err("RuntimeError"))
          /\ UNCHANGED <<db, work, uow, faults>>
     ELSE \E ok \in BOOLEAN :
            /\ UnitOfWork_commit_step(ok)
            /\ result' = Outcome("commit", IF ok THEN Done ELSE Err("SQLAlchemyError"))

\* uow.rollback(), lines 73-76.
Call_rollback ==
  /\ UowRest
  /\ UNCHANGED <<db, pc, faults>>
  /\ IF UnitOfWork_rollback_raises
     THEN /\ result' = Outcome("rollback", Err("RuntimeError"))
          /\ UNCHANGED <<uow, work>>
     ELSE /\ result' = Outcome("rollback", Done)
          /\ IF uow.state = "open"
             THEN /\ work' = UnitOfWork_rollback(work)
                  /\ uow' = TxClosed
             ELSE UNCHANGED <<uow, work>>

\* async with uow.transaction(), lines 88-91: entering the block.
Call_transaction(p) ==
  /\ pc[p] = "idle"
  /\ UowRest
  /\ UNCHANGED <<db, work, faults>>
  /\ IF transaction_enter # "ok"
     THEN /\ result' = Outcome("transaction", Err(transaction_enter))
          /\ UNCHANGED <<uow, pc>>
     ELSE /\ uow' = TxOpen
          /\ pc' = [pc EXCEPT ![p] = "in_block"]
          /\ result' = Outcome("transaction", Done)

\* The body of the block raises, lines 94-96: rollback, re-raise (the
\* session's begin() block then finds nothing left to roll back).
Leave_transaction_raising(p) ==
  /\ pc[p] = "in_block"
  /\ UowRest
  /\ UNCHANGED <<db, faults>>
  /\ pc' = [pc EXCEPT ![p] = "idle"]
  /\ result' = Outcome("block_raised", Err("Exception"))
  /\ IF uow.state = "open"
     THEN /\ work' = UnitOfWork_rollback(work)
          /\ uow' = TxClosed
     ELSE UNCHANGED <<uow, work>>

\* The body of the block ends normally, line 91: the session's begin() block
\* commits the transaction if it is still active.
Leave_transaction(p) ==
  /\ pc[p] = "in_block"
  /\ UowRest
  /\ UNCHANGED faults
  /\ pc' = [pc EXCEPT ![p] = "idle"]
  /\ result' = Outcome("block_left", Done)
  /\ IF uow.state = "open" /\ uow.tx
     THEN /\ db' = UnitOfWork_commit(work)
          /\ uow' = TxClosed
          /\ UNCHANGED work
     ELSE UNCHANGED <<db, uow, work>>

\* uow.close(), lines 98-104: an open unit closes its session, which drops
\* what was pending; any other unit is left alone.
Call_close ==
  /\ UowRest
  /\ UNCHANGED <<db, pc, faults>>
  /\ result' = Outcome("close", Done)
  /\ IF uow.state = "open"
     THEN /\ uow' = [state |-> "closed", tx |-> FALSE, session |-> 0]
          /\ work' = db
     ELSE UNCHANGED <<uow, work>>

NextUow ==
  \/ Call_aenter
  \/ Call_property
  \/ Call_write
  \/ Call_commit
  \/ Call_rollback
  \/ \E p \in Procs : Call_transaction(p)
  \/ \E p \in Procs : Leave_transaction_raising(p)
  \/ \E p \in Procs : Leave_transaction(p)
  \/ Call_close

SpecUow == Init /\ [][NextUow]_vars

(* ------------------------- AuthService revocation calls ----------------- *)
\* AuthService.revoke_token(token), line 225.
Call_AuthService_revoke_token(p) ==
  \E v \in Presentable :
    Start(p, "rv_get", <<"ar_token", "top_done">>,
          [NoLoc EXCEPT !.op = "AuthService.revoke_token", !.arg = v, !.arg2 = v,
                        !.reason = "User logged out",
                        !.pre = Persisted(get_by_token(db, v))])

\* AuthService.revoke_all_tokens(user_id), line 244; pre keeps the tokens
\* table as it is when the call is made.
Call_AuthService_revoke_all_tokens(p) ==
  \E u \in Users :
    Start(p, "ru_get", <<"ar_all", "top_done">>,
          [NoLoc EXCEPT !.op = "AuthService.revoke_all_tokens", !.user = u,
                        !.reason = UserLogoutReason, !.pre = db])

NextAuthRevoke ==
  \/ UnitOfWork_aenter
  \/ \E p \in Procs : Call_create_access_token(p)
  \/ \E p \in Procs : create_token_insert(p)
  \/ \E p \in Procs : create_token_commit(p)
  \/ \E p \in Procs : Call_AuthService_revoke_token(p)
  \/ \E p \in Procs : revoke_token_get(p)
  \/ \E p \in Procs : revoke_token_commit(p)
  \/ \E p \in Procs : Call_AuthService_revoke_all_tokens(p)
  \/ \E p \in Procs : revoke_user_tokens_get(p)
  \/ \E p \in Procs : revoke_user_tokens_update(p)
  \/ \E p \in Procs : revoke_user_tokens_commit(p)

SpecAuthRevoke == Init /\ [][NextAuthRevoke]_vars

(* ------------------------- UserRegistrationService.register_user -------- *)
MaxRegistrations == 3

\* Addresses and usernames as callers write them: a name, and whether it is
\* written with capital letters.
GivenEmails == {<<"a", FALSE>>, <<"a", TRUE>>, <<"b", FALSE>>}
GivenUsernames == {<<"n1", FALSE>>, <<"n1", TRUE>>, <<"n2", FALSE>>}

\* Email.__post_init__: the validated address in lowercase.
Email_from_string(value) == <<value[1], FALSE>>

\* Username.__post_init__: stripped and in lowercase.
Username_from_string(value) == <<value[1], FALSE>>

\* The users table as the session of the unit held sees it.
Visible(r) == r.table \o r.session

\* UserRepository.get_user_by_email / get_user_by_username: whether a row
\* with exactly this value is found.
get_user_by_email(rows, email) == \E i \in 1..Len(rows) : rows[i].email = email
get_user_by_username(rows, username) ==
  \E i \in 1..Len(rows) : rows[i].username = username

\* Variant of the users table without its unique indexes.
users_without_unique_index(rows, row) == FALSE

\* UserORM, ix_user_email and ix_user_username (unique=True): whether
\* inserting row breaks a unique index.
users_unique_violation(rows, row) ==
  get_user_by_email(rows, row.email) \/ get_user_by_username(rows, row.username)

\* UnitOfWork.__aexit__(None, None, None) and "self._uow = None", lines
\* 147-149: the session commits, the unit closes, the service forgets it.
UnitOfWork_aexit(r) ==
  [r EXCEPT !.table = r.table \o r.session, !.session = <<>>, !.unit = "none"]

\* register_user, lines 143-149: "except Exception" rolls back through
\* self._uow and the finally clause exits the unit; when self._uow is None
\* the rollback raises AttributeError and the finally clause does nothing.
register_user_except(r) ==
  IF r.unit = "none" THEN r
  ELSE UnitOfWork_aexit([r EXCEPT !.session = <<>>])

\* Caller p's call ends with out.
Finish(r, p, out) ==
  [r EXCEPT !.call[p] = IdleCall,
            !.done = [n |-> r.call[p].n, given |-> r.call[p].given,
                      email |-> r.call[p].email, out |-> out,
                      alone |-> r.call[p].alone, pre |-> r.call[p].pre,
                      before |-> r.call[p].before]]

RegistrationError == Err("UserRegistrationError")

RegRest ==
  UNCHANGED <<db, work, users, uow, pc, ret, loc, last, ncalls, faults, log,
              now, settings, entity, result>>

\* register_user, lines 101-114: the unit of work is made and entered if the
\* service holds none, the address is normalised, get_user_by_email is called.
Call_register_user(p) ==
  \E e \in GivenEmails, u \in GivenUsernames :
    LET r == registration
        r1 == IF r.unit = "none" THEN [r EXCEPT !.unit = "open", !.session = <<>>]
              ELSE r
        email == Email_from_string(e)
        running == {q \in Procs : r.call[q].pc # "idle"}
        mine == [pc |-> "email", n |-> r.count + 1, given |-> e, email |-> email,
                 username |-> u,
                 found |-> get_user_by_email(Visible(r1), email),
                 ok |-> TRUE, alone |-> running = {},
                 pre |-> get_user_by_email(r.table, email), before |-> r.table]
    IN /\ r.call[p].pc = "idle"
       /\ r.count < MaxRegistrations
       /\ RegRest
       /\ registration' =
            [r1 EXCEPT !.count = @ + 1, !.done = NoDone,
                       !.call = [q \in Procs |->
                                  IF q = p THEN mine
                                  ELSE IF q \in running
                                  THEN [r.call[q] EXCEPT !.alone = FALSE]
                                  ELSE r.call[q]]]

\* register_user, lines 114-122: a user found gives EmailAlreadyExistsError;
\* otherwise the username is normalised and get_user_by_username is called
\* through self._uow (None by now: AttributeError, "except Exception" at 161).
register_user_email(p) ==
  LET r == [registration EXCEPT !.done = NoDone]
      c == r.call[p]
  IN /\ c.pc = "email"
     /\ RegRest
     /\ registration' =
          IF c.found
          THEN Finish(r, p, ErrMsg("EmailAlreadyExistsError", "is already registered"))
          ELSE IF r.unit = "none"
          THEN Finish(r, p, RegistrationError)
          ELSE [r EXCEPT !.call[p].pc = "username",
                         !.call[p].found =
                            get_user_by_username(Visible(r),
                                                 Username_from_string(c.username))]

\* register_user, lines 122-135: a username found gives
\* UsernameAlreadyExistsError; otherwise users.register_user adds the row and
\* flushes, which the unique indexes can refuse.
register_user_username(p) ==
  LET r == [registration EXCEPT !.done = NoDone]
      c == r.call[p]
      row == [email |-> c.email, username |-> Username_from_string(c.username)]
  IN /\ c.pc = "username"
     /\ RegRest
     /\ registration' =
          IF c.found
          THEN Finish(r, p, ErrMsg("UsernameAlreadyExistsError", "is already taken"))
          ELSE IF r.unit = "none"
          THEN Finish(r, p, RegistrationError)
          ELSE IF users_unique_violation(Visible(r), row)
          THEN [r EXCEPT !.call[p].pc = "insert", !.call[p].ok = FALSE]
          ELSE [r EXCEPT !.call[p].pc = "insert", !.call[p].ok = TRUE,
                         !.session = Append(@, row)]

\* register_user, lines 135-145: a failed insert is rolled back and becomes
\* UserRegistrationError; otherwise self._uow.commit(), which commits the
\* session or fails and rolls it back.
register_user_insert(p) ==
  LET r == [registration EXCEPT !.done = NoDone]
      c == r.call[p]
  IN /\ c.pc = "insert"
     /\ RegRest
     /\ IF ~c.ok
        THEN registration' = Finish(register_user_except(r), p, RegistrationError)
        ELSE IF r.unit = "none"
        THEN registration' = Finish(r, p, RegistrationError)
        ELSE \E ok \in BOOLEAN :
               registration' =
                 [r EXCEPT !.call[p].pc = "commit", !.call[p].ok = ok,
                           !.table = IF ok THEN r.table \o r.session ELSE @,
                           !.session = <<>>]

\* register_user, lines 138-149: the profile is returned, or the failed
\* commit becomes UserRegistrationError; the finally clause exits the unit
\* the service holds, if it holds one.
register_user_commit(p) ==
  LET r == [registration EXCEPT !.done = NoDone]
      c == r.call[p]
  IN /\ c.pc = "commit"
     /\ RegRest
     /\ registration' =
          IF ~c.ok
          THEN Finish(register_user_except(r), p, RegistrationError)
          ELSE Finish(IF r.unit = "none" THEN r ELSE UnitOfWork_aexit(r), p,
                      [ok |-> TRUE, err |-> None])

NextRegister ==
  \/ \E p \in Procs : Call_register_user(p)
  \/ \E p \in Procs : register_user_email(p)
  \/ \E p \in Procs : register_user_username(p)
  \/ \E p \in Procs : register_user_insert(p)
  \/ \E p \in Procs : register_user_commit(p)

SpecRegister == Init /\ [][NextRegister]_vars

(* ------------------------- verify_token over every kind of token -------- *)
\* A correctly signed access token that has no row in the tokens table.
Unstored == create_jwt_payload("u1", <<"x", 0>>, {"read"})

VerifyScopes == {{}, {"admin"}}

\* verify_token(token_str, token_type, required_scopes) with a string that was
\* handed out, one that was never issued, or a signed one that is not stored.
Call_verify_token_any(p) ==
  \E v \in Presentable \cup {Unstored}, ty \in {ACCESS, REFRESH}, sc \in VerifyScopes :
    Start(p, "vt_checks", <<"top_done">>,
          [NoLoc EXCEPT !.op = "verify_token", !.arg = v, !.type = ty,
                        !.scopes = sc])

Call_create_access_token_read(p) ==
  \E u \in Users :
    Start(p, "ca_start", <<"top_done">>,
          [NoLoc EXCEPT !.op = "create_access_token", !.user = u,
                        !.given = {"read"}])

NextVerify ==
  \/ UnitOfWork_aenter
  \/ \E p \in Procs : Call_create_access_token_read(p)
  \/ \E p \in Procs : create_token_insert(p)
  \/ \E p \in Procs : create_token_commit(p)
  \/ \E p \in Procs : Call_revoke_token(p)
  \/ \E p \in Procs : revoke_token_get(p)
  \/ \E p \in Procs : revoke_token_commit(p)
  \/ \E p \in Procs : Call_verify_token_any(p)
  \/ \E p \in Procs : verify_token_checks(p)
  \/ \E p \in Procs : verify_token_user(p)
  \/ \E p \in Procs : verify_token_commit(p)
  \/ \E u \in Users : delete_user_by_id(u)

SpecVerify == Init /\ [][NextVerify]_vars

(* ------------------------- leaving the UnitOfWork context --------------- *)
\* UnitOfWork.close, lines 98-104: an open unit is marked closed and gives
\* up its session and its factory; any other unit is left alone.
UnitOfWork_close(u) ==
  IF u.state = "open" THEN [state |-> "closed", tx |-> FALSE, session |-> 0]
  ELSE u

\* UnitOfWork.__aexit__, lines 43-48.  exc tells whether the block is left
\* with an exception, ok whether the session's commit succeeds.  With an
\* exception: rollback(), then close().  Without: commit(), which raises on a
\* unit that is not open (64-65) and, when the session's commit fails, rolls
\* back and re-raises (67-71); close() on line 48 is reached only when
\* commit() returned.
UnitOfWork_aexit_step(exc, ok) ==
  IF exc
  THEN /\ work' = UnitOfWork_rollback(work)
       /\ uow' = UnitOfWork_close(uow)
       /\ UNCHANGED <<db, faults>>
  ELSE IF UnitOfWork_use_raises
  THEN UNCHANGED <<db, work, uow, faults>>
  ELSE \/ /\ ok
          /\ db' = UnitOfWork_commit(work)
          /\ work' = db'
          /\ uow' = UnitOfWork_close(TxClosed)
          /\ UNCHANGED faults
       \/ /\ ~ok
          /\ faults < MaxFaults
          /\ faults' = faults + 1
          /\ work' = UnitOfWork_rollback(work)
          /\ uow' = TxClosed
          /\ UNCHANGED db

\* What __aexit__ gives its caller: None, or the exception commit() raised.
UnitOfWork_aexit_out(exc, ok) ==
  IF exc THEN Done
  ELSE IF UnitOfWork_use_raises THEN Err("RuntimeError")
  ELSE IF ok THEN Done
  ELSE Err("SQLAlchemyError")

\* How a block under "async with uow" is left.
ExitPath(exc, ok) ==
  IF exc THEN "aexit_exception"
  ELSE IF ok THEN "aexit_clean"
  ELSE "aexit_commit_failed"

\* "async with uow:" is left, cleanly or with an exception.
Call_aexit ==
  /\ \A p \in Procs : pc[p] = "idle"
  /\ UowRest
  /\ UNCHANGED pc
  /\ \E exc \in BOOLEAN, ok \in BOOLEAN :
       /\ UnitOfWork_aexit_step(exc, ok)
       /\ result' = Outcome(ExitPath(exc, ok), UnitOfWork_aexit_out(exc, ok))

NextContext ==
  \/ Call_aenter
  \/ Call_property
  \/ Call_write
  \/ Call_commit
  \/ Call_rollback
  \/ Call_aexit

SpecContext == Init /\ [][NextContext]_vars

(* ------------------------- requests through UserAuthManagement --------- *)
\* get_user_auth_management (dependencies/services.py 78-87) builds the
\* request's UserAuthManagement around get_uow(), which is cached
\* (dependencies/domain.py 31-42): every request is handed the one unit of
\* the process.  "async with user_auth_management" then runs
\* UserAuthManagement.__aenter__, lines 95-98: uow.__aenter__().
Enter_request(p) ==
  /\ pc[p] = "idle"
  /\ UowRest
  /\ UNCHANGED <<db, faults>>
  /\ IF UnitOfWork_aenter_raises
     THEN /\ result' = Outcome("request_enter", Err("RuntimeError"))
          /\ UNCHANGED <<uow, work, pc>>
     ELSE /\ uow.session < MaxSessions
          /\ uow' = [state |-> "open", tx |-> FALSE, session |-> uow.session + 1]
          /\ work' = db
          /\ pc' = [pc EXCEPT ![p] = "in_request"]
          /\ result' = Outcome("request_enter", Done)

\* A token operation of request p inside its context: uow.tokens is read
\* (unit_of_work.py 56-60) and a row is written through it.
Request_create_token(p) ==
  /\ pc[p] = "in_request"
  /\ UowRest
  /\ UNCHANGED <<db, pc, faults>>
  /\ IF UnitOfWork_property_raises
     THEN /\ result' = Outcome("request_tokens", Err("RuntimeError"))
          /\ UNCHANGED <<uow, work>>
     ELSE /\ Len(work) < MaxTokens
          /\ work' = Append(work, NewToken(Len(work) + 1,
                                           token_urlsafe(<<"w", Len(work) + 1>>),
                                           "u1", REFRESH, {},
                                           TokenExpiry_from_now(settings.refresh)))
          /\ uow' = TxOpen
          /\ result' = Outcome("request_tokens", Done)

\* A service of request p calls uow.commit() (unit_of_work.py 62-71).
Request_commit(p) ==
  /\ pc[p] = "in_request"
  /\ UowRest
  /\ UNCHANGED pc
  /\ IF UnitOfWork_use_raises
     THEN /\ result' = Outcome("request_commit", Err("RuntimeError"))
          /\ UNCHANGED <<db, work, uow, faults>>
     ELSE \E ok \in BOOLEAN :
            /\ UnitOfWork_commit_step(ok)
            /\ result' = Outcome("request_commit",
                                 IF ok THEN Done ELSE Err("SQLAlchemyError"))

\* UserAuthManagement.__aexit__, lines 100-103: uow.__aexit__(...) and, when
\* that returned, uow.close(), which then finds the unit closed already.
Exit_request(p) ==
  /\ pc[p] = "in_request"
  /\ UowRest
  /\ pc' = [pc EXCEPT ![p] = "idle"]
  /\ \E exc \in BOOLEAN, ok \in BOOLEAN :
       /\ UnitOfWork_aexit_step(exc, ok)
       /\ result' = Outcome("request_exit", UnitOfWork_aexit_out(exc, ok))

NextRequest ==
  \/ \E p \in Procs : Enter_request(p)
  \/ \E p \in Procs : Request_create_token(p)
  \/ \E p \in Procs : Request_commit(p)
  \/ \E p \in Procs : Exit_request(p)

SpecRequest == Init /\ [][NextRequest]_vars

(* ------------------------- UserService.get_my_profile, update_my_profile *)
\* update_my_profile, lines 119-125.
allowed_fields == {"first_name", "last_name", "username", "profile_picture", "bio"}

\* update_my_profile, lines 126-130: the fields of update_data that are kept.
update_data_filtered(update_data) == update_data \cap allowed_fields

\* users.update_user_by_id(user_id, update_data): the fields named are
\* written; n names the call that writes them.
update_user_by_id(row, update_data, n) ==
  [k \in DOMAIN row |-> IF k \in update_data THEN n ELSE row[k]]

\* get_my_profile, lines 95-96: the transaction block is entered and the
\* user is looked up; a failing transaction() propagates as it is.
get_my_profile_step(p) ==
  /\ pc[p] = "gp_start"
  /\ UNCHANGED <<users, ncalls, faults, db, work>>
  /\ IF transaction_enter # "ok"
     THEN /\ UNCHANGED uow
          /\ Return(p, Err(transaction_enter))
     ELSE /\ uow' = TxOpen
          /\ Goto(p, "rd_leave",
                  [loc[p] EXCEPT !.out =
                     IF get_user_by_id(loc[p].user) = None
                     THEN Err("UserNotFoundError")
                     ELSE [ok |-> TRUE, err |-> None, user |-> loc[p].user]])

\* get_my_profile, lines 97-100, and update_my_profile, lines 136-138, with
\* UnitOfWork.transaction, lines 91-96: no user gives UserNotFoundError, the
\* block rolls back; otherwise the user is returned and the block, left
\* normally, commits what the session holds.
leave_read_block(p) ==
  /\ pc[p] = "rd_leave"
  /\ UNCHANGED <<users, ncalls, faults>>
  /\ uow' = TxClosed
  /\ IF ~loc[p].out.ok
     THEN /\ work' = UnitOfWork_rollback(work)
          /\ UNCHANGED db
     ELSE /\ db' = IF uow.tx THEN UnitOfWork_commit(work) ELSE db
          /\ UNCHANGED work
  /\ Return(p, loc[p].out)

\* update_my_profile, lines 126-150: the update data is filtered; with
\* nothing left the user is only read (134-135); otherwise the user is read
\* and updated inside the try, where a missing user becomes UserUpdateError
\* after a rollback (145, 157-165).  A failing transaction() propagates as
\* it is, both blocks being entered outside the try.
update_my_profile_step(p) ==
  /\ pc[p] = "up_start"
  /\ UNCHANGED <<users, ncalls, faults, db>>
  /\ LET update_data == update_data_filtered(loc[p].fields)
         user == get_user_by_id(loc[p].user)
     IN IF transaction_enter # "ok"
        THEN /\ UNCHANGED <<work, uow>>
             /\ Return(p, Err(transaction_enter))
        ELSE IF update_data = {}
        THEN /\ uow' = TxOpen
             /\ UNCHANGED work
             /\ Goto(p, "rd_leave",
                     [loc[p] EXCEPT !.out =
                        IF user = None THEN Err("UserNotFoundError")
                        ELSE [ok |-> TRUE, err |-> None, user |-> loc[p].user]])
        ELSE IF user = None
        THEN /\ work' = UnitOfWork_rollback(work)
             /\ uow' = TxClosed
             /\ Return(p, Err("UserUpdateError"))
        ELSE /\ uow' = TxOpen
             /\ UNCHANGED work
             /\ Goto(p, "up_commit", [loc[p] EXCEPT !.fields = update_data])

\* update_my_profile, lines 154-166: commit and return the user; a failing
\* commit is rolled back and becomes UserUpdateError.  The row written is
\* kept with the caller until this commit.
update_my_profile_commit(p) ==
  /\ pc[p] = "up_commit"
  /\ UNCHANGED ncalls
  /\ \E ok \in BOOLEAN :
       /\ UnitOfWork_commit_step(ok)
       /\ users' = IF ok
                   THEN [users EXCEPT ![loc[p].user] =
                           update_user_by_id(@, loc[p].fields, loc[p].n[2])]
                   ELSE users
       /\ IF ok THEN Return(p, [ok |-> TRUE, err |-> None, user |-> loc[p].user])
                ELSE Return(p, Err("UserUpdateError"))

(* ------------------------- requests inside UserAuthManagement ----------- *)
\* "async with self._uow.transaction()" of login (126), refresh_tokens (193),
\* logout (228) and change_password (265): a failing transaction() is caught
\* by the operation's "except Exception"; otherwise the block is entered and
\* the service call is made: authenticate_user, refresh_access_token (which
\* starts with verify_token), revoke_token, get_my_profile.
UserAuthManagement_enter(p) ==
  /\ pc[p] = "uam_enter"
  /\ UNCHANGED <<users, ncalls, faults, db, work>>
  /\ IF transaction_enter # "ok"
     THEN /\ UNCHANGED uow
          /\ Continue(p, Frame("top_done", <<>>,
                               [loc[p] EXCEPT !.out = UserAuthManagement_error(loc[p].op)]))
     ELSE /\ uow' = TxOpen
          /\ Goto(p, CASE loc[p].op = "login" -> "au_start"
                       [] loc[p].op = "refresh_tokens" -> "vt_checks"
                       [] loc[p].op = "logout" -> "rv_get"
                       [] loc[p].op = "change_password" -> "gp_start",
                  loc[p])

\* The block is left (UnitOfWork.transaction, lines 91-96) with what the
\* operation makes of the service call: an exception rolls back and reaches
\* the caller as the HTTPException of the operation's handlers; a normal exit
\* commits the session's transaction if it is still active.
UserAuthManagement_leave(p) ==
  /\ pc[p] = "uam_leave"
  /\ UNCHANGED <<users, ncalls, faults>>
  /\ LET out == UserAuthManagement_result(loc[p].op, loc[p].out)
     IN /\ uow' = TxClosed
        /\ IF ~out.ok
           THEN /\ work' = UnitOfWork_rollback(work)
                /\ UNCHANGED db
           ELSE /\ db' = IF uow.tx THEN UnitOfWork_commit(work) ELSE db
                /\ UNCHANGED work
        /\ Return(p, out)

Call_login(p) ==
  \E u \in Users, pw \in BOOLEAN :
    Start(p, "uam_enter", <<"uam_leave", "top_done">>,
          [NoLoc EXCEPT !.op = "login", !.user = u, !.pw = pw,
                        !.pre = /\ pw
                                /\ users[u].exists
                                /\ users[u].enabled
                                /\ users[u].verified])

Call_refresh_tokens(p) ==
  \E v \in Presentable :
    Start(p, "uam_enter", <<"rf_verified", "uam_leave", "top_done">>,
          [NoLoc EXCEPT !.op = "refresh_tokens", !.arg = v, !.type = REFRESH,
                        !.pre = ValidRefresh(v)])

Call_logout(p) ==
  \E v \in Presentable :
    Start(p, "uam_enter", <<"uam_leave", "top_done">>,
          [NoLoc EXCEPT !.op = "logout", !.arg = v, !.arg2 = v,
                        !.reason = "User logged out",
                        !.pre = Persisted(get_by_token(db, v))])

\* pre keeps whether the request is one change_password is to carry out, and
\* the tables as they are when the call is made.
Call_change_password(p) ==
  \E u \in Users, pw \in BOOLEAN, confirm \in BOOLEAN :
    Start(p, "uam_enter", <<"cp_profile", "uam_leave", "top_done">>,
          [NoLoc EXCEPT !.op = "change_password", !.user = u, !.pw = pw,
                        !.confirm = confirm,
                        !.pre = [valid |-> pw /\ confirm /\ users[u].exists,
                                 db |-> db, users |-> users]])

\* The services called on their own, outside any block of
\* UserAuthManagement.
Call_get_my_profile(p) ==
  \E u \in Users :
    Start(p, "gp_start", <<"top_done">>,
          [NoLoc EXCEPT !.op = "get_my_profile", !.user = u])

Call_update_my_profile(p) ==
  \E u \in Users, fields \in {{"hashed_password"}, {"bio"}} :
    Start(p, "up_start", <<"top_done">>,
          [NoLoc EXCEPT !.op = "update_my_profile", !.user = u, !.fields = fields])

NextManagement ==
  \/ UnitOfWork_aenter
  \/ \E p \in Procs : Call_create_access_token_of(p)
  \/ \E p \in Procs : create_token_insert(p)
  \/ \E p \in Procs : create_token_commit(p)
  \/ \E p \in Procs : Call_login(p)
  \/ \E p \in Procs : Call_refresh_tokens(p)
  \/ \E p \in Procs : Call_logout(p)
  \/ \E p \in Procs : Call_change_password(p)
  \/ \E p \in Procs : UserAuthManagement_enter(p)
  \/ \E p \in Procs : UserAuthManagement_leave(p)
  \/ \E p \in Procs : authenticate_user_start(p)
  \/ \E p \in Procs : verify_token_checks(p)
  \/ \E p \in Procs : revoke_token_get(p)
  \/ \E p \in Procs : Call_get_my_profile(p)
  \/ \E p \in Procs : get_my_profile_step(p)
  \/ \E p \in Procs : leave_read_block(p)
  \/ \E p \in Procs : Call_update_my_profile(p)
  \/ \E p \in Procs : update_my_profile_step(p)
  \/ \E p \in Procs : update_my_profile_commit(p)
  \/ \E p \in Procs : Call_revoke_user_tokens(p)
  \/ \E p \in Procs : revoke_user_tokens_get(p)
  \/ \E p \in Procs : revoke_user_tokens_update(p)
  \/ \E p \in Procs : revoke_user_tokens_commit(p)

SpecManagement == Init /\ [][NextManagement]_vars

(* ========================= properties ================================== *)
RefreshedReason == "Refreshed with new token"

\* Call e ran alone: no call was in progress when it started and none was
\* started before it completed.
Sequential(e) == e.with = {} /\ e.calls = e.n[2]

\* C2: when two refresh_access_token calls given the same refresh token R,
\* valid when each was called, run concurrently, at most one returns a pair,
\* and a call of the two that fails finds R revoked.
C2_ConcurrentRefreshOneWinner ==
  \A e1 \in log : \A e2 \in log :
    ( /\ e1.n # e2.n
      /\ e1.arg = e2.arg
      /\ e1.pre /\ e2.pre
      /\ e1.n \in e2.with
      /\ faults = 0 )
    => /\ ~(e1.out.ok /\ e2.out.ok)
       /\ \A e \in {e1, e2} : ~e.out.ok => e.old.status = REVOKED

\* C3: a refresh_access_token call that runs alone, given a refresh token R
\* that is persisted, active and owned by an existing user and that no earlier
\* call was given, returns a new pair and persists a new access and a new
\* refresh token; a later call given the same R returns None and creates
\* no token.
C3_RefreshTwiceInSequence ==
  ( /\ last.op = "refresh_access_token"
    /\ Sequential(last)
    /\ faults = 0 )
  => /\ ( /\ last.pre
          /\ \A e \in log : e.arg = last.arg => e.n = last.n )
        => last.out.ok /\ last.made = {ACCESS, REFRESH}
     /\ (\E e \in log : e.arg = last.arg /\ e.n # last.n /\ e.out.ok)
        => ~last.out.ok /\ last.made = {}

C9_FailedVerifyWritesNothing ==
  (last.op = "verify_token" /\ ~last.out.is_valid)
  => /\ \A i \in 1..Len(db) : db[i].last_used # last.n
     /\ \A i \in 1..Len(work) : work[i].last_used # last.n

\* verify_token failed at its commit, after it had written last_used_at.
C9_Witness ==
  /\ last.op = "verify_token"
  /\ ~last.out.is_valid
  /\ last.out.err = "Error verifying user"
  /\ faults > 0
  /\ last.old.status = ACTIVE

\* C10: authenticate_user, run alone with the correct password of an existing,
\* enabled, verified user, returns that user, an access token that decodes
\* with type access and a refresh token that decodes with type refresh.
C10_LoginReturnsVerifiablePair ==
  ( /\ last.op = "authenticate_user"
    /\ last.pre
    /\ Sequential(last)
    /\ faults = 0 )
  => /\ last.out.ok
     /\ last.out.user = last.user
     /\ decode_jwt(last.out.access).kind = "jwt"
     /\ decode_jwt(last.out.access).type = ACCESS
     /\ decode_jwt(last.out.refresh).kind = "jwt"
     /\ decode_jwt(last.out.refresh).type = REFRESH

\* The account a completed authenticate_user call named exists.
KnownUser(e) == e.user \in Users /\ users[e.user].exists

\* What a caller of authenticate_user sees of a credential failure.
InvalidCredentials == ErrMsg("InvalidCredentialsError", "Invalid email or password")

\* C11: authenticate_user for an existing, enabled user with a wrong password
\* creates no token row, committed or pending, and, when it ran alone, raises
\* InvalidCredentialsError.
C11_WrongPasswordCreatesNothing ==
  ( /\ last.op = "authenticate_user"
    /\ KnownUser(last)
    /\ users[last.user].enabled
    /\ ~last.pw )
  => /\ last.made = {}
     /\ \A i \in 1..Len(work) : work[i].value.n # last.n
     /\ Sequential(last) => last.out.err = "InvalidCredentialsError"

\* A login with a wrong password for an existing, enabled user was refused.
C11_Witness ==
  /\ last.op = "authenticate_user"
  /\ KnownUser(last)
  /\ users[last.user].enabled
  /\ ~last.pw
  /\ Sequential(last)
  /\ last.out.err = "InvalidCredentialsError"

\* C12 as stated: authenticate_user, run alone, raises the same error with
\* the same message for an email that has no user and for an existing user
\* with a wrong password.
C12_SameOutcomeAnyExistingUser ==
  ( /\ last.op = "authenticate_user"
    /\ Sequential(last)
    /\ \/ ~KnownUser(last)
       \/ KnownUser(last) /\ ~last.pw )
  => last.out = InvalidCredentials

\* C12 as amended: authenticate_user, run alone, raises the same error with
\* the same message for an email that has no user and for an existing,
\* enabled user with a wrong password.
C12_SameOutcomeEnabledUser ==
  ( /\ last.op = "authenticate_user"
    /\ Sequential(last)
    /\ \/ ~KnownUser(last)
       \/ KnownUser(last) /\ users[last.user].enabled /\ ~last.pw )
  => last.out = InvalidCredentials

\* A login for an email that has no user was refused with that outcome.
C12_Witness ==
  /\ last.op = "authenticate_user"
  /\ Sequential(last)
  /\ ~KnownUser(last)
  /\ last.out = InvalidCredentials

Identified(ident) ==
  {i \in 1..Len(db) : db[i].value = ident \/ ident = IdString(db[i].id)}

\* C14: after a revoke_token call that ran alone without persistence failure,
\* a token named by the identifier, by its string value or by its id, is no
\* longer active, the call returned true if it revoked it, and an identifier
\* naming no token gives false.
C14_RevokeByValueOrId ==
  ( /\ last.op = "revoke_token"
    /\ Sequential(last)
    /\ faults = 0 )
  => /\ \A i \in Identified(last.arg) :
          /\ db[i].status # ACTIVE
          /\ db[i].revoked_at = last.n => last.out.ok
     /\ Identified(last.arg) = {} => ~last.out.ok

\* The rows the completed call e marked revoked.
RevokedBy(e) == {i \in 1..Len(db) : db[i].revoked_at = e.n}

\* A revoke_user_tokens call that ran alone has returned its count.
RevokedAll(e) == e.op = "revoke_user_tokens" /\ Sequential(e) /\ e.out.ok

C16_ValidIffActiveUnexpiredUnrevoked ==
  \A i \in 1..Len(db) :
    Token_is_valid(db[i]) <=> /\ db[i].status = ACTIVE
                              /\ now < db[i].expires_at
                              /\ db[i].revoked_at = <<>>

\* The scopes the presented token carries cover the required ones.
Covers(e) == "*" \in e.arg.scopes \/ e.scopes \subseteq e.arg.scopes

\* A verify_token call with required scopes ran alone on a token that was
\* persisted and active.
ScopedVerify(e) ==
  /\ e.op = "verify_token"
  /\ e.scopes # {}
  /\ Sequential(e)
  /\ e.pre

InternalFailure == Invalid("Internal server error")

\* C18: verify_token, run alone on a token that decodes, has the expected
\* type and is persisted with status revoked or expired, reports the cause:
\* TokenRevokedError for revoked, TokenExpiredError for expired, and not the
\* outcome of an internal failure.
C18_NonActiveStatusReported ==
  ( /\ last.op = "verify_token"
    /\ Sequential(last)
    /\ last.arg.kind = "jwt"
    /\ last.type \in {None, last.arg.type}
    /\ last.old.status \in {REVOKED, EXPIRED} )
  => /\ last.out # InternalFailure
     /\ last.out.err = IF last.old.status = REVOKED THEN "TokenRevokedError"
                                                    ELSE "TokenExpiredError"

NamedImmutable == {"token", "user_id", "token_type", "expiry", "created_at"}

\* C20: after entity.with_updates(...), the object it was called on is as it
\* was before the call; if the update named any of token, user_id, token_type,
\* expiry or created_at the call failed with ValueError; if it named only
\* other fields it returned a token that has the new value in every named
\* field and the original's value in every other field.
C20_WithUpdatesGuardsImmutableFields ==
  result.op = "with_updates"
  => /\ entity = result.self
     /\ result.fields \cap NamedImmutable # {}
          => (~result.out.ok /\ result.out.err = "ValueError")
     /\ result.fields \cap NamedImmutable = {}
          => /\ result.out.ok
             /\ \A k \in result.fields :
                  result.out.token[FieldOf[k]] = NewValue[k]
             /\ \A f \in DOMAIN entity :
                  (\A k \in result.fields : FieldOf[k] # f)
                    => result.out.token[f] = entity[f]

\* with_updates naming expiry (and not the token value) was refused.
C20_Witness ==
  /\ result.op = "with_updates"
  /\ "expiry" \in result.fields
  /\ "token" \notin result.fields
  /\ result.out.err = "ValueError"
  /\ entity = result.self

\* The calls C21 names: reading users or tokens, commit(), transaction() and
\* re-entering the context.
GuardedUse == {"users", "tokens", "commit", "transaction", "aenter"}

\* C21: a call on a closed UnitOfWork leaves it closed, whatever the call;
\* reading users or tokens, commit(), transaction() and __aenter__ on a
\* closed unit each raise RuntimeError and change nothing.
C21_ClosedUnitRejectsUse ==
  (result.op # None /\ result.uow0.state = "closed")
  => /\ uow = result.uow0
     /\ db = result.db0
     /\ result.op \in GuardedUse
          => (~result.out.ok /\ result.out.err = "RuntimeError")

\* A closed unit was entered again and refused.
C21_Witness ==
  /\ result.op = "aenter"
  /\ result.uow0.state = "closed"
  /\ result.out.err = "RuntimeError"
  /\ uow.state = "closed"

\* C22: __aenter__ on a unit that is already open is rejected and the unit
\* keeps the session it had.
C22_OpenUnitRejectsEntry ==
  (result.op = "aenter" /\ result.uow0.state = "open")
  => /\ ~result.out.ok
     /\ uow.session = result.uow0.session

\* C23: when the body of a transaction() block raised, the writes of the
\* block are rolled back, nothing is persisted and the exception reaches the
\* caller; when the body ended normally, nothing is persisted by leaving the
\* block: the writes stay pending.
C23_BlockExitDoesNotCommit ==
  /\ result.op = "block_raised"
       => /\ ~result.out.ok
          /\ db = result.db0
          /\ work = db
  /\ result.op = "block_left"
       => /\ db = result.db0
          /\ work = result.work0

\* C24: when the underlying commit failed, commit() has re-raised the
\* failure, the table is as before the call and the session holds no pending
\* write.
C24_FailedCommitRollsBack ==
  (result.op = "commit" /\ result.uow0.state = "open" /\ ~result.out.ok)
  => /\ result.out.err = "SQLAlchemyError"
     /\ db = result.db0
     /\ work = db
     /\ ~uow.tx

\* A commit failed while writes were pending.
C24_Witness ==
  /\ result.op = "commit"
  /\ result.out.err = "SQLAlchemyError"
  /\ result.work0 # result.db0
  /\ db = result.db0
  /\ work = db

\* C25: rollback() raises nothing and changes no persisted state; on a unit
\* that is closed or was never entered it changes nothing at all, and on a
\* unit with nothing pending (already rolled back included) it leaves the
\* session's view as it was.
C25_RollbackIdempotent ==
  result.op = "rollback"
  => /\ result.out.ok
     /\ db = result.db0
     /\ result.uow0.state # "open" => (uow = result.uow0 /\ work = result.work0)
     /\ result.work0 = result.db0 => work = result.work0
     /\ work = db

\* rollback() was called on a closed unit and returned.
C25_Witness ==
  /\ result.op = "rollback"
  /\ result.uow0.state = "closed"
  /\ result.out.ok
  /\ uow = result.uow0

\* C26: authenticate_user applies its checks in a fixed order: for an existing
\* user whose account is disabled a call that ran alone raises
\* AccountDisabledError whether or not the password is correct;
\* AccountNotVerifiedError is raised only for an enabled, unverified account
\* with the correct password; a call ending in either creates no token row,
\* committed or pending.
C26_ChecksInFixedOrder ==
  ( /\ last.op = "authenticate_user"
    /\ KnownUser(last) )
  => /\ (Sequential(last) /\ ~users[last.user].enabled)
          => last.out.err = "AccountDisabledError"
     /\ last.out.err = "AccountNotVerifiedError"
          => /\ users[last.user].enabled
             /\ ~users[last.user].verified
             /\ last.pw
     /\ last.out.err \in {"AccountDisabledError", "AccountNotVerifiedError"}
          => /\ last.made = {}
             /\ \A i \in 1..Len(work) : work[i].value.n # last.n

\* A login with a wrong password for a disabled account was refused as
\* disabled.
C26_Witness ==
  /\ last.op = "authenticate_user"
  /\ KnownUser(last)
  /\ Sequential(last)
  /\ ~users[last.user].enabled
  /\ ~last.pw
  /\ last.out.err = "AccountDisabledError"

\* The three exceptions authenticate_user re-raises as they are.
ExpectedLoginErrors ==
  {"InvalidCredentialsError", "AccountDisabledError", "AccountNotVerifiedError"}

\* C27: an authenticate_user call that fails with anything other than
\* InvalidCredentialsError, AccountDisabledError or AccountNotVerifiedError
\* fails with AuthenticationError, no token row of the call is committed or
\* left pending, and, when the call ran alone, its transaction is closed and
\* the session holds nothing that is not committed.
C27_UnexpectedFailureWrappedAndRolledBack ==
  ( /\ last.op = "authenticate_user"
    /\ ~last.out.ok
    /\ last.out.err \notin ExpectedLoginErrors )
  => /\ last.out.err = "AuthenticationError"
     /\ last.made = {}
     /\ \A i \in 1..Len(work) : work[i].value.n # last.n
     /\ Sequential(last) => ~uow.tx /\ work = db

\* A login that passed every check failed in create_token_pair and was
\* reported as AuthenticationError.
C27_Witness ==
  /\ last.op = "authenticate_user"
  /\ last.pre
  /\ Sequential(last)
  /\ last.out.err = "AuthenticationError"
  /\ ~uow.tx

\* Rows of the committed table that the call with nonce n marked revoked.
MarkedBy(n) == {i \in 1..Len(db) : db[i].revoked_at = n}

\* C28: AuthService.revoke_token and AuthService.revoke_all_tokens never
\* raise; revoke_token returns true exactly when the token it was given is
\* persisted revoked by this call and false otherwise; revoke_all_tokens
\* returns a count, which is the number of tokens persisted revoked by this
\* call, so 0 when the underlying operation failed.
C28_RevocationNeverRaises ==
  /\ last.op = "AuthService.revoke_token"
       => /\ last.out.err = None
          /\ last.out.ok <=> last.old.revoked_at = last.n
  /\ last.op = "AuthService.revoke_all_tokens"
       => /\ last.out.err = None
          /\ last.out.ok
          /\ last.out.count = Cardinality(MarkedBy(last.n))

\* revoke_all_tokens, run alone for a user who had an active token, returned
\* 0: the underlying revoke_user_tokens failed and nothing was revoked.
C28_Witness ==
  /\ last.op = "AuthService.revoke_all_tokens"
  /\ Sequential(last)
  /\ \E i \in 1..Len(last.pre) : /\ last.pre[i].user = last.user
                                  /\ last.pre[i].status = ACTIVE
  /\ last.out.ok
  /\ last.out.count = 0
  /\ db = last.pre

\* C29: the committed users table never holds two users with one email, and
\* a register_user call that ran alone for an email already registered when
\* it was called is rejected with EmailAlreadyExistsError ("... is already
\* registered") and leaves the table as it was.
C29_OneUserPerEmail ==
  /\ \A i \in 1..Len(registration.table) : \A j \in 1..Len(registration.table) :
        registration.table[i].email = registration.table[j].email => i = j
  /\ ( /\ registration.done.n # 0
       /\ registration.done.alone
       /\ registration.done.pre )
     => /\ registration.done.out =
             ErrMsg("EmailAlreadyExistsError", "is already registered")
        /\ registration.table = registration.done.before

\* A registered address, written with capital letters this time, was refused
\* as already registered.
C29_Witness ==
  /\ registration.done.n # 0
  /\ registration.done.alone
  /\ registration.done.pre
  /\ registration.done.given = <<"a", TRUE>>
  /\ registration.done.out.err = "EmailAlreadyExistsError"
  /\ Len(registration.table) = 1

\* C30: a create_token_pair call that ran alone, with no persistence failure,
\* has persisted a refresh token and, after it, an access token whose
\* parent_token_id is the id of that refresh token.
C30_AccessTokenCarriesRefreshId ==
  ( /\ last.op = "create_token_pair"
    /\ Sequential(last)
    /\ faults = 0 )
  => \E i \in CreatedBy(db, last.n) : \E j \in CreatedBy(db, last.n) :
       /\ db[i].type = REFRESH
       /\ db[j].type = ACCESS
       /\ i < j
       /\ db[j].parent = db[i].id

\* What verify_token reports when a check after the persisted status fails.
AfterStatus == {"Insufficient permissions", "User not found", "Error verifying user"}

C33_IdentityFieldsNeverChange ==
  [][ /\ \A i \in 1..Len(db) : /\ db'[i].value = db[i].value
                                /\ db'[i].user = db[i].user
                                /\ db'[i].type = db[i].type
      /\ ( /\ last'.op = "create_refresh_token"
           /\ Sequential(last')
           /\ faults' = 0 )
         => /\ last'.out.ok
            /\ \E i \in 1..Len(db') : db'[i].value = last'.out.string ]_vars

\* C34: the next_token_id links only lead from a token to one persisted
\* later, so they form chains without cycles; and a refresh_access_token call
\* that ran alone on a valid refresh token R, with no persistence failure,
\* returns a new refresh token R2 with R's next_token_id referring to R2 and
\* R2's parent_token_id referring to R.
C34_RotationChainLinked ==
  /\ \A i \in 1..Len(db) : db[i].next # 0 => (db[i].next > i /\ db[i].next <= Len(db))
  /\ ( /\ last.op = "refresh_access_token"
       /\ last.pre
       /\ Sequential(last)
       /\ faults = 0 )
     => /\ last.out.ok
        /\ \E i \in 1..Len(db) : \E j \in 1..Len(db) :
              /\ db[i].value = last.arg
              /\ db[j].value = last.out.refresh
              /\ db[i].next = db[j].id
              /\ db[j].parent = db[i].id

C40_UnitReleasedOnEveryExit ==
  ( /\ registration.done.n # 0
    /\ registration.done.alone )
  => /\ registration.unit = "none"
     /\ registration.session = <<>>

\* C39: leaving the UnitOfWork context of an entered unit ends with the unit
\* closed and its session released, whether the block was left cleanly, with
\* an exception, or with the commit failing.
C39_ContextExitAlwaysCloses ==
  ( /\ result.op \in {"aexit_clean", "aexit_exception", "aexit_commit_failed"}
    /\ result.uow0.state = "open" )
  => /\ uow.state = "closed"
     /\ uow.session = 0

\* C38: a request entering its UserAuthManagement context is never handed a
\* closed unit of work, and the entry succeeds: a request that came and went
\* does not keep a later one from entering.
C38_LaterRequestEntersUsableUnit ==
  result.op = "request_enter"
  => /\ result.uow0.state # "closed"
     /\ result.out.ok

\* C36: a change_password call that ran alone, with no persistence failure,
\* for an existing user, with the right current password and a matching
\* confirmation, succeeds; after a call that succeeded no token of the user
\* that was active before the call is active; a call that failed has changed
\* neither the user's row nor any token.
C36_PasswordChangeRevokesTokens ==
  (last.op = "change_password" /\ Sequential(last) /\ faults = 0)
  => /\ last.pre.valid => last.out.ok
     /\ last.out.ok
          => \A i \in 1..Len(last.pre.db) :
               (last.pre.db[i].user = last.user /\ last.pre.db[i].status = ACTIVE)
               => db[i].status # ACTIVE
     /\ ~last.out.ok => (db = last.pre.db /\ users = last.pre.users)

\* Caller p is inside the transaction block of a request of
\* UserAuthManagement.
InRequestScope(p) == loc[p].op \in Requests /\ pc[p] \notin {"idle", "uam_enter"}

\* The labels whose statement enters uow.transaction().
EntersTransaction ==
  {"au_start", "rv_get", "gp_start", "up_start", "ru_get", "vt_user",
   "ct_insert", "cr_update"}

====
